---- MODULE Spec2Model ----
(***************************************************************************)
(* The adaptive query cache of hn-alerts (src/src/libs/cache.ts,           *)
(* class QueryCache) as a state machine.  One action per method, timer     *)
(* callback or promise continuation; the event loop runs one of them at a  *)
(* time, and an `await` splits a method into the step before it and the    *)
(* continuation after it.                                                  *)
(*                                                                         *)
(* An optional value (`T | undefined`) is a set with at most one element.  *)
(* A Map is a function whose DOMAIN is the set of keys present; its        *)
(* insertion order is not kept (pruneCache, the one place that depends on  *)
(* it, may break ties of equal timestamps either way).                     *)
(*                                                                         *)
(* Not state of the model: lastCounterReset and lastGC (written, read only *)
(* by getStats) and lowLatencyMode (true, never reassigned).  defaultTTL,   *)
(* never reassigned after the constructor, is the operator DefaultTTL.     *)
(*                                                                         *)
(* The warmer of src/src/libs/cacheWarming.ts (preloadCaches and           *)
(* invalidateAndRefreshCaches) runs on the same event loop; its runs and   *)
(* its timers are the variables preloads and refreshTimers.                *)
(* The endpoint handlers of createCachedEndpoint answer a request from the  *)
(* value get() resolved; the handlers suspended at their await, the last   *)
(* Response and the hash function behind the ETag are handlers, response   *)
(* and bunHash.                                                            *)
(***************************************************************************)
EXTENDS Integers, FiniteSets, Sequences, Bags, TLC

\* ---------------------------------------------------------------- bounds

\* get() calls over one behaviour (hits + misses never exceeds it)
MaxRequests == 3
\* get() calls suspended at `await queryFn()` at the same time
MaxCalls == 2
\* prefetch timers/fetches outstanding at the same time
MaxTasks == 2

\* cache keys used by the endpoints (src/src/index.ts)
Keys == {"leaderboard_stories", "total_stories_count"}
\* query functions a caller can pass for a key
Fns == {"queryFn"}
\* results a query function can resolve to
Values == {"A", "B"}
\* ttl arguments, in seconds
TTLs == {300}
\* instants Date.now() is read at, in milliseconds
TimePoints == {0, 295000, 295900, 296000, 300000}
\* the last of them: no timer is set to fire after it
MaxClock == CHOOSE t \in TimePoints : \A u \in TimePoints : u <= t

\* maxItems arguments of the constructor, small enough for Keys to exceed
Capacities == {1}

VARIABLES
    clock,           \* Date.now(), ms
    isProduction,    \* process.env.NODE_ENV === "production"
    maxItems,        \* private maxItems, set by the constructor
    cache,           \* Map<string, CacheItem>
    queryRegistry,   \* Map<string, {fn, ttl, priority}>
    priorityKeys,    \* Set<string>
    prefetchQueue,   \* Set<string>
    requestCounter,
    hits,
    misses,
    calls,           \* bag of get() calls suspended at `await queryFn()`
    tasks,           \* bag of prefetch callbacks: timer pending or fetch awaited
    pruneQueued,     \* pruneCache microtasks queued by queueMicrotask
    event,           \* the step just taken and what it handed to its caller
    refreshTimers,   \* bag of the timers invalidateAndRefreshCaches() has set
    preloads,        \* the runs of preloadCaches(), in the order they began
    bunHash,         \* Bun.hash on the serialized values, cut to 12 digits
    handlers,        \* bag of endpoint handlers suspended at `await queryCache.get`
    response         \* the Response the last handler returned, if any

vars == <<clock, isProduction, maxItems, cache, queryRegistry, priorityKeys, prefetchQueue,
          requestCounter, hits, misses, calls, tasks, pruneQueued, event,
          refreshTimers, preloads, bunHash, handlers, response>>

\* the state of the warmer, which no method of QueryCache touches
warmerVars == <<refreshTimers, preloads>>

\* the state of the endpoint handlers of createCachedEndpoint
httpVars == <<bunHash, handlers, response>>

\* ----------------------------------------------------------------- values

\* CacheItem<T> = { data, timestamp, expiresAt }
CacheItem(data, timestamp, expiresAt) ==
    [data |-> data, timestamp |-> timestamp, expiresAt |-> expiresAt]

\* Math.floor(Date.now() / 1000)
NowSeconds(ms) == ms \div 1000

\* Map.get as an optional value
MapGet(m, k) == IF k \in DOMAIN m THEN {m[k]} ELSE {}

\* Map.set
MapSet(m, k, v) == [x \in DOMAIN m \cup {k} |-> IF x = k THEN v ELSE m[x]]

\* Map.delete
MapDelete(m, ks) == [x \in DOMAIN m \ ks |-> m[x]]

EmptyMap == [x \in {} |-> 0]

\* `event` describes the step just taken when it belongs to a get() call or to a
\* prefetch: the arguments (key, ttl), the locals (now, cached, queryTime), how the
\* awaited queryFn settled (fetch: a value, "throw", or "none" when none was
\* awaited), what the call handed to its caller (out: a value, "throw", or "none"
\* when nothing was handed back), whether a prefetch was scheduled and whether
\* console.warn and Sentry.captureException reported stale data being served.
\* For a step of register, invalidate, invalidateAll or pruneCache it holds the
\* method (op), its key argument, the keys whose entries it deleted (removed) and
\* whether pruneCache gave its console.warn "Cache full but all items are priority"
NoEvent ==
    [op |-> "none", key |-> "", ttl |-> 0, now |-> 0, cached |-> {}, queryTime |-> 0,
     fetch |-> "none", out |-> "none", scheduled |-> FALSE, staleSignal |-> FALSE,
     removed |-> {}, warned |-> FALSE]

GetEvent(op, key, ttl, now, cached, fetch, out, scheduled, staleSignal) ==
    [op |-> op, key |-> key, ttl |-> ttl, now |-> now, cached |-> cached,
     queryTime |-> 0, fetch |-> fetch, out |-> out, scheduled |-> scheduled,
     staleSignal |-> staleSignal, removed |-> {}, warned |-> FALSE]

PrefetchEvent(op, key, ttl, now, queryTime, fetch) ==
    [op |-> op, key |-> key, ttl |-> ttl, now |-> now, cached |-> {},
     queryTime |-> queryTime, fetch |-> fetch, out |-> "none", scheduled |-> FALSE,
     staleSignal |-> FALSE, removed |-> {}, warned |-> FALSE]

StoreEvent(op, key, removed, warned) ==
    [NoEvent EXCEPT !.op = op, !.key = key, !.removed = removed, !.warned = warned]

\* -------------------------------------------------------------- register

\* RegistrySet that keeps the registration a key already has
RegistryInsertOnce(reg, key, fn, ttl, priority) ==
    IF key \in DOMAIN reg THEN reg
    ELSE MapSet(reg, key, [fn |-> fn, ttl |-> ttl, priority |-> priority])

\* register(): this.queryRegistry.set(key, {fn, ttl, priority})
RegistrySet(reg, key, fn, ttl, priority) ==
    MapSet(reg, key, [fn |-> fn, ttl |-> ttl, priority |-> priority])

\* PrioritySet with priorityKeys.add(key) lost
PriorityDrop(pk, key, priority) == pk \ {key}

\* PrioritySet with priorityKeys.delete(key) lost: a key once priority stays so
PriorityAddOnly(pk, key, priority) ==
    IF priority THEN pk \cup {key} ELSE pk

\* register(): priorityKeys.add(key) if priority, else priorityKeys.delete(key)
PrioritySet(pk, key, priority) ==
    IF priority THEN pk \cup {key} ELSE pk \ {key}

Register(key, fn, ttl, priority) ==
    /\ pruneQueued = 0
    /\ queryRegistry' = RegistrySet(queryRegistry, key, fn, ttl, priority)
    /\ priorityKeys' = PrioritySet(priorityKeys, key, priority)
    /\ event' = StoreEvent("register", key, {}, FALSE)
    /\ UNCHANGED <<clock, isProduction, maxItems, cache, prefetchQueue, requestCounter,
                   hits, misses, calls, tasks, pruneQueued>>

\* ------------------------------------------------------------------- get

\* IsLive with the comparison made inclusive: an entry is served at now = expiresAt
IsLiveInclusive(cached, now) == \E c \in cached : c.expiresAt >= now

\* IsLive with the entry given up ten seconds early
IsLiveEarly(cached, now) == \E c \in cached : c.expiresAt > now + 10

\* get(): cached && cached.expiresAt > now
IsLive(cached, now) == \E c \in cached : c.expiresAt > now

\* ThresholdPct with the two classes exchanged: regular keys get the wider window
ThresholdPctSwapped(isPriority, prod) ==
    IF isPriority THEN (IF prod THEN 5 ELSE 15)
                  ELSE (IF prod THEN 15 ELSE 25)

\* get(): prefetchThreshold as a percentage of ttl
ThresholdPct(isPriority, prod) ==
    IF isPriority THEN (IF prod THEN 15 ELSE 25)
                  ELSE (IF prod THEN 5 ELSE 15)

\* ShouldPrefetch without the test of the prefetch queue
ShouldPrefetchNoDedup(item, now, ttl, key, pk, queue, prod) ==
    (item.expiresAt - now) * 100 < ttl * ThresholdPct(key \in pk, prod)

\* get(): timeToExpiry < prefetchThreshold && !this.prefetchQueue.has(key)
ShouldPrefetch(item, now, ttl, key, pk, queue, prod) ==
    /\ (item.expiresAt - now) * 100 < ttl * ThresholdPct(key \in pk, prod)
    /\ key \notin queue

\* prefetch(): the setTimeout delay, ms
PrefetchDelay(isPriority, queueSize, prod) ==
    IF isPriority THEN (IF prod THEN 10 ELSE 0)
    ELSE IF queueSize > 10 THEN (IF prod THEN 200 + queueSize * 10 ELSE 100)
    ELSE (IF prod THEN 50 ELSE 0)

\* PrefetchTask with queryFn invoked inline instead of from the timer callback
PrefetchInline(key, fn, ttl, dueAt) ==
    [key |-> key, fn |-> fn, ttl |-> ttl, dueAt |-> dueAt,
     phase |-> "fetch", startTime |-> dueAt]

\* prefetch(): the callback handed to setTimeout
PrefetchTask(key, fn, ttl, dueAt) ==
    [key |-> key, fn |-> fn, ttl |-> ttl, dueAt |-> dueAt,
     phase |-> "timer", startTime |-> 0]

\* GetHit made to wait until no get() call is suspended at its fetch
GetHitWhenIdle(key, fn, ttl) ==
    /\ calls = EmptyBag
    /\ pruneQueued = 0
    /\ hits + misses < MaxRequests
    /\ LET now == NowSeconds(clock)
           cached == MapGet(cache, key)
       IN  /\ IsLive(cached, now)
           /\ requestCounter' = requestCounter + 1
           /\ hits' = hits + 1
           /\ \E item \in cached :
                IF ShouldPrefetch(item, now, ttl, key, priorityKeys, prefetchQueue,
                                  isProduction)
                THEN LET dueAt == clock + PrefetchDelay(key \in priorityKeys,
                                         Cardinality(prefetchQueue \cup {key}),
                                         isProduction)
                     IN  /\ BagCardinality(tasks) < MaxTasks
                         /\ dueAt <= MaxClock
                         /\ prefetchQueue' = prefetchQueue \cup {key}
                         /\ tasks' = tasks (+) SetToBag({PrefetchTask(key, fn, ttl, dueAt)})
                         /\ event' = GetEvent("get", key, ttl, now, cached, "none",
                                              item.data, TRUE, FALSE)
                ELSE /\ UNCHANGED <<prefetchQueue, tasks>>
                     /\ event' = GetEvent("get", key, ttl, now, cached, "none",
                                          item.data, FALSE, FALSE)
    /\ UNCHANGED <<clock, isProduction, maxItems, cache, queryRegistry, priorityKeys, misses,
                   calls, pruneQueued>>

\* get(), fast path: the entry is live; no await, so the whole call is one step
GetHit(key, fn, ttl) ==
    /\ pruneQueued = 0
    /\ hits + misses < MaxRequests
    /\ LET now == NowSeconds(clock)
           cached == MapGet(cache, key)
       IN  /\ IsLive(cached, now)
           /\ requestCounter' = requestCounter + 1
           /\ hits' = hits + 1
           /\ \E item \in cached :
                IF ShouldPrefetch(item, now, ttl, key, priorityKeys, prefetchQueue,
                                  isProduction)
                THEN LET dueAt == clock + PrefetchDelay(key \in priorityKeys,
                                         Cardinality(prefetchQueue \cup {key}),
                                         isProduction)
                     IN  /\ BagCardinality(tasks) < MaxTasks
                         /\ dueAt <= MaxClock
                         /\ prefetchQueue' = prefetchQueue \cup {key}
                         /\ tasks' = tasks (+) SetToBag({PrefetchTask(key, fn, ttl, dueAt)})
                         /\ event' = GetEvent("get", key, ttl, now, cached, "none",
                                              item.data, TRUE, FALSE)
                ELSE /\ UNCHANGED <<prefetchQueue, tasks>>
                     /\ event' = GetEvent("get", key, ttl, now, cached, "none",
                                          item.data, FALSE, FALSE)
    /\ UNCHANGED <<clock, isProduction, maxItems, cache, queryRegistry, priorityKeys, misses,
                   calls, pruneQueued>>

\* get(), up to `await queryFn()`: the locals the continuation keeps, whether
\* the call was made by warmCache(), which awaits it inside its try block, and
\* the run of preloadCaches() that awaits it (0: none)
GetCall(key, fn, ttl, now, cached) ==
    [key |-> key, fn |-> fn, ttl |-> ttl, now |-> now, cached |-> cached,
     warm |-> FALSE, run |-> 0]

\* get(), miss path up to the await: counts the miss and invokes queryFn
GetMiss(key, fn, ttl) ==
    /\ pruneQueued = 0
    /\ hits + misses < MaxRequests
    /\ BagCardinality(calls) < MaxCalls
    /\ LET now == NowSeconds(clock)
           cached == MapGet(cache, key)
       IN  /\ ~IsLive(cached, now)
           /\ requestCounter' = requestCounter + 1
           /\ misses' = misses + 1
           /\ calls' = calls (+) SetToBag({GetCall(key, fn, ttl, now, cached)})
           /\ event' = GetEvent("getMiss", key, ttl, now, cached, "none", "none",
                               FALSE, FALSE)
    /\ UNCHANGED <<clock, isProduction, maxItems, cache, queryRegistry, priorityKeys,
                   prefetchQueue, hits, tasks, pruneQueued>>

\* MissItem with the ttl taken for milliseconds
MissItemMs(data, now, ttl) == CacheItem(data, now, now + ttl * 1000)

\* get(): the item stored after a miss
MissItem(data, now, ttl) == CacheItem(data, now, now + ttl)

\* get(): this.cache.size > this.maxItems * 0.9
NearCapacity(c, max) == Cardinality(DOMAIN c) * 10 > max * 9

\* the call that settles: get() called directly, or warmCache() settling with it
ReturnOp(call) == IF call.warm THEN "warmReturn" ELSE "getReturn"

\* GetFill that leaves alone an entry committed since the call read the store:
\* of two overlapping fetches the first to complete wins
GetFillFirstWins(call, data) ==
    /\ BagIn(call, calls)
    /\ calls' = calls (-) SetToBag({call})
    /\ cache' = IF call.key \in DOMAIN cache /\ MapGet(cache, call.key) # call.cached
                THEN cache
                ELSE MapSet(cache, call.key, MissItem(data, call.now, call.ttl))
    /\ IF call.key \notin DOMAIN queryRegistry
       THEN /\ queryRegistry' = RegistrySet(queryRegistry, call.key, call.fn, call.ttl,
                                            call.key \in priorityKeys)
            /\ priorityKeys' = PrioritySet(priorityKeys, call.key,
                                           call.key \in priorityKeys)
       ELSE UNCHANGED <<queryRegistry, priorityKeys>>
    /\ pruneQueued' = IF NearCapacity(cache', maxItems) THEN pruneQueued + 1 ELSE pruneQueued
    /\ event' = GetEvent(ReturnOp(call), call.key, call.ttl, call.now, call.cached, data,
                         data, FALSE, FALSE)
    /\ UNCHANGED <<clock, isProduction, maxItems, prefetchQueue, requestCounter, hits, misses,
                   tasks>>

\* GetFill that registers the key on every fill with the default priority = false:
\* a registration the key already has is replaced
GetFillReregister(call, data) ==
    /\ BagIn(call, calls)
    /\ calls' = calls (-) SetToBag({call})
    /\ cache' = MapSet(cache, call.key, MissItem(data, call.now, call.ttl))
    /\ queryRegistry' = RegistrySet(queryRegistry, call.key, call.fn, call.ttl, FALSE)
    /\ priorityKeys' = PrioritySet(priorityKeys, call.key, FALSE)
    /\ pruneQueued' = IF NearCapacity(cache', maxItems) THEN pruneQueued + 1 ELSE pruneQueued
    /\ event' = GetEvent(ReturnOp(call), call.key, call.ttl, call.now, call.cached, data,
                         data, FALSE, FALSE)
    /\ UNCHANGED <<clock, isProduction, maxItems, prefetchQueue, requestCounter, hits, misses,
                   tasks>>

\* get(), continuation when queryFn resolved with data
GetFill(call, data) ==
    /\ BagIn(call, calls)
    /\ calls' = calls (-) SetToBag({call})
    /\ cache' = MapSet(cache, call.key, MissItem(data, call.now, call.ttl))
    /\ IF call.key \notin DOMAIN queryRegistry
       THEN /\ queryRegistry' = RegistrySet(queryRegistry, call.key, call.fn, call.ttl,
                                            call.key \in priorityKeys)
            /\ priorityKeys' = PrioritySet(priorityKeys, call.key,
                                           call.key \in priorityKeys)
       ELSE UNCHANGED <<queryRegistry, priorityKeys>>
    /\ pruneQueued' = IF NearCapacity(cache', maxItems) THEN pruneQueued + 1 ELSE pruneQueued
    /\ event' = GetEvent(ReturnOp(call), call.key, call.ttl, call.now, call.cached, data,
                         data, FALSE, FALSE)
    /\ UNCHANGED <<clock, isProduction, maxItems, prefetchQueue, requestCounter, hits, misses,
                   tasks>>

\* StaleOrThrow without the stale fallback: the error is always rethrown
AlwaysThrow(cached) == {"throw"}

\* StaleOrThrow with the rethrow lost: undefined is handed back instead
SwallowError(cached) == IF cached # {} THEN {c.data : c \in cached} ELSE {"none"}

\* get(), catch block: what the call hands back when queryFn rejected
StaleOrThrow(cached) == IF cached # {} THEN {c.data : c \in cached} ELSE {"throw"}

\* warmCache(), catch block: an error thrown by the awaited get() is logged,
\* reported and turned into null
WarmOut(call, out) == IF call.warm /\ out = "throw" THEN "null" ELSE out

\* get(), continuation when queryFn rejected
GetFail(call) ==
    /\ BagIn(call, calls)
    /\ calls' = calls (-) SetToBag({call})
    /\ \E out \in StaleOrThrow(call.cached) :
         event' = GetEvent(ReturnOp(call), call.key, call.ttl, call.now, call.cached,
                           "throw", WarmOut(call, out), FALSE, out # "throw")
    /\ UNCHANGED <<clock, isProduction, maxItems, cache, queryRegistry, priorityKeys,
                   prefetchQueue, requestCounter, hits, misses, tasks, pruneQueued>>

\* -------------------------------------------------------------- prefetch

\* prefetch(), timer callback up to `await queryFn()`: startTime = Date.now()
PrefetchStart(task) ==
    /\ pruneQueued = 0
    /\ BagIn(task, tasks)
    /\ task.phase = "timer"
    /\ clock >= task.dueAt
    /\ tasks' = (tasks (-) SetToBag({task}))
                  (+) SetToBag({[task EXCEPT !.phase = "fetch", !.startTime = clock]})
    /\ event' = PrefetchEvent("prefetchStart", task.key, task.ttl, NowSeconds(clock), 0,
                              "none")
    /\ UNCHANGED <<clock, isProduction, maxItems, cache, queryRegistry, priorityKeys,
                   prefetchQueue, requestCounter, hits, misses, calls, pruneQueued>>

\* AdjustedTtl with the cap Math.min(3, ...) lost: the multiplier grows with the
\* query time without bound
AdjustedTtlUncapped(ttl, queryTime) ==
    IF queryTime > 200
    THEN (ttl * (1000 + queryTime)) \div 1000
    ELSE ttl

\* prefetch(): adjustedTtl; lowLatencyMode is true and never reassigned.
\* Math.floor(ttl * Math.min(3, 1 + queryTime / 1000)) when queryTime > 200
AdjustedTtl(ttl, queryTime) ==
    IF queryTime > 200
    THEN IF queryTime >= 2000 THEN ttl * 3
         ELSE (ttl * (1000 + queryTime)) \div 1000
    ELSE ttl

\* PrefetchItem with expiresAt not offset by now
PrefetchItemNoNow(data, now, ttl, queryTime) ==
    CacheItem(data, now, AdjustedTtl(ttl, queryTime))

\* prefetch(): the item stored when the background query resolved
PrefetchItem(data, now, ttl, queryTime) ==
    CacheItem(data, now, now + AdjustedTtl(ttl, queryTime))

\* QueueDelete with the finally block lost: the key stays queued
QueueKeep(queue, key) == queue

\* prefetch(), finally block: this.prefetchQueue.delete(key)
QueueDelete(queue, key) == queue \ {key}

\* prefetch(), continuation when queryFn resolved with data
PrefetchFill(task, data) ==
    /\ BagIn(task, tasks)
    /\ task.phase = "fetch"
    /\ tasks' = tasks (-) SetToBag({task})
    /\ cache' = MapSet(cache, task.key,
                       PrefetchItem(data, NowSeconds(clock), task.ttl,
                                    clock - task.startTime))
    /\ prefetchQueue' = QueueDelete(prefetchQueue, task.key)
    /\ event' = PrefetchEvent("prefetchFill", task.key, task.ttl, NowSeconds(clock),
                              clock - task.startTime, data)
    /\ UNCHANGED <<clock, isProduction, maxItems, queryRegistry, priorityKeys, requestCounter,
                   hits, misses, calls, pruneQueued>>

\* PrefetchFail with the entry of the key dropped when the background query fails
PrefetchFailDrop(task) ==
    /\ BagIn(task, tasks)
    /\ task.phase = "fetch"
    /\ tasks' = tasks (-) SetToBag({task})
    /\ cache' = MapDelete(cache, {task.key})
    /\ prefetchQueue' = QueueDelete(prefetchQueue, task.key)
    /\ event' = PrefetchEvent("prefetchFail", task.key, task.ttl, NowSeconds(clock),
                              clock - task.startTime, "throw")
    /\ UNCHANGED <<clock, isProduction, maxItems, queryRegistry, priorityKeys,
                   requestCounter, hits, misses, calls, pruneQueued>>

\* prefetch(), continuation when queryFn rejected: logged, reported, swallowed
PrefetchFail(task) ==
    /\ BagIn(task, tasks)
    /\ task.phase = "fetch"
    /\ tasks' = tasks (-) SetToBag({task})
    /\ prefetchQueue' = QueueDelete(prefetchQueue, task.key)
    /\ event' = PrefetchEvent("prefetchFail", task.key, task.ttl, NowSeconds(clock),
                              clock - task.startTime, "throw")
    /\ UNCHANGED <<clock, isProduction, maxItems, cache, queryRegistry, priorityKeys,
                   requestCounter, hits, misses, calls, pruneQueued>>

\* ------------------------------------------------------------- warmCache

\* warmCache(key) when the key has no registration: console.warn, return null
WarmCacheNull(key) ==
    /\ pruneQueued = 0
    /\ key \notin DOMAIN queryRegistry
    /\ event' = [NoEvent EXCEPT !.op = "warmCache", !.key = key, !.out = "null"]
    /\ UNCHANGED <<clock, isProduction, maxItems, cache, queryRegistry, priorityKeys,
                   prefetchQueue, requestCounter, hits, misses, calls, tasks, pruneQueued>>

\* warmCache(key) on a registered key whose entry is live: the awaited
\* get(key, registration.fn, registration.ttl) is a hit, and its data is returned
WarmCacheHit(key) ==
    /\ key \in DOMAIN queryRegistry
    /\ GetHit(key, queryRegistry[key].fn, queryRegistry[key].ttl)

\* warmCache(key) on a registered key with no live entry, up to the await of
\* queryFn inside get(key, registration.fn, registration.ttl)
WarmCacheMiss(key) ==
    /\ pruneQueued = 0
    /\ key \in DOMAIN queryRegistry
    /\ hits + misses < MaxRequests
    /\ BagCardinality(calls) < MaxCalls
    /\ LET now == NowSeconds(clock)
           cached == MapGet(cache, key)
           fn == queryRegistry[key].fn
           ttl == queryRegistry[key].ttl
       IN  /\ ~IsLive(cached, now)
           /\ requestCounter' = requestCounter + 1
           /\ misses' = misses + 1
           /\ calls' = calls (+) SetToBag({[GetCall(key, fn, ttl, now, cached)
                                              EXCEPT !.warm = TRUE]})
           /\ event' = GetEvent("getMiss", key, ttl, now, cached, "none", "none",
                               FALSE, FALSE)
    /\ UNCHANGED <<clock, isProduction, maxItems, cache, queryRegistry, priorityKeys,
                   prefetchQueue, hits, tasks, pruneQueued>>

\* ---------------------------------------------------------- invalidation

\* Invalidate with the key's pending prefetch forgotten as well
InvalidateDequeue(key) ==
    /\ pruneQueued = 0
    /\ cache' = IF key \in DOMAIN cache THEN MapDelete(cache, {key}) ELSE cache
    /\ prefetchQueue' = prefetchQueue \ {key}
    /\ event' = StoreEvent("invalidate", key, DOMAIN cache \ DOMAIN cache', FALSE)
    /\ UNCHANGED <<clock, isProduction, maxItems, queryRegistry, priorityKeys,
                   requestCounter, hits, misses, calls, tasks, pruneQueued>>

\* Invalidate with the registration of the key deleted along with its entry
InvalidateUnregister(key) ==
    /\ pruneQueued = 0
    /\ cache' = IF key \in DOMAIN cache THEN MapDelete(cache, {key}) ELSE cache
    /\ queryRegistry' = MapDelete(queryRegistry, {key})
    /\ event' = StoreEvent("invalidate", key, DOMAIN cache \ DOMAIN cache', FALSE)
    /\ UNCHANGED <<clock, isProduction, maxItems, priorityKeys, prefetchQueue,
                   requestCounter, hits, misses, calls, tasks, pruneQueued>>

\* invalidate(key)
Invalidate(key) ==
    /\ pruneQueued = 0
    /\ cache' = IF key \in DOMAIN cache THEN MapDelete(cache, {key}) ELSE cache
    /\ event' = StoreEvent("invalidate", key, DOMAIN cache \ DOMAIN cache', FALSE)
    /\ UNCHANGED <<clock, isProduction, maxItems, queryRegistry, priorityKeys, prefetchQueue,
                   requestCounter, hits, misses, calls, tasks, pruneQueued>>

\* PriorityEntries without the restore: clear() alone
ClearedEntries(c, pk) == EmptyMap

\* invalidateAll(): the map after clear() and the restore of the priority entries
PriorityEntries(c, pk) == [k \in DOMAIN c \cap pk |-> c[k]]

InvalidateAll ==
    /\ pruneQueued = 0
    /\ cache' = IF Cardinality(priorityKeys) > 0
                THEN PriorityEntries(cache, priorityKeys)
                ELSE EmptyMap
    /\ event' = StoreEvent("invalidateAll", "", DOMAIN cache \ DOMAIN cache', FALSE)
    /\ UNCHANGED <<clock, isProduction, maxItems, queryRegistry, priorityKeys, prefetchQueue,
                   requestCounter, hits, misses, calls, tasks, pruneQueued>>

\* ---------------------------------------------------------------- pruning

\* ExpiredKeys without the test of the priority keys
ExpiredKeysAny(c, now, pk) == {k \in DOMAIN c : c[k].expiresAt <= now}

\* pruneCache()/runGarbageCollection(): item.expiresAt <= now && !priorityKeys.has(key)
ExpiredKeys(c, now, pk) == {k \in DOMAIN c : c[k].expiresAt <= now /\ k \notin pk}

\* pruneCache(): Math.ceil(this.cache.size - this.maxItems * 0.7)
RemoveCount(size, max) == (size * 10 - max * 7 + 9) \div 10

\* OldestFirst with the sort reversed: the newest evictable entries are taken
NewestFirst(c, evictable, n) ==
    {R \in SUBSET evictable :
        /\ Cardinality(R) = IF n < Cardinality(evictable) THEN n
                            ELSE Cardinality(evictable)
        /\ \A a \in R, b \in evictable \ R : c[a].timestamp >= c[b].timestamp}

\* pruneCache(): the sets evictableEntries.sort(by timestamp).slice(0, n) can be;
\* entries of equal timestamp keep their Map order, which is not modelled, so
\* every choice among them is allowed
OldestFirst(c, evictable, n) ==
    {R \in SUBSET evictable :
        /\ Cardinality(R) = IF n < Cardinality(evictable) THEN n
                            ELSE Cardinality(evictable)
        /\ \A a \in R, b \in evictable \ R : c[a].timestamp <= c[b].timestamp}

\* pruneCache(): the maps it can leave behind
PruneResult(c, now, pk, max) ==
    IF Cardinality(DOMAIN c) <= max THEN {c}
    ELSE LET expired == ExpiredKeys(c, now, pk)
             c1 == MapDelete(c, expired)
             evictable == DOMAIN c \ pk
         IN  IF expired # {} /\ Cardinality(DOMAIN c1) * 10 <= max * 9 THEN {c1}
             ELSE IF evictable = {} THEN {c1}
             ELSE {MapDelete(c1, R) :
                     R \in OldestFirst(c, evictable, RemoveCount(Cardinality(DOMAIN c1), max))}

\* PruneWarns with the console.warn lost
NeverWarns(c, now, pk, max) == FALSE

\* pruneCache(): whether the run ends at the console.warn of lines 538-543
PruneWarns(c, now, pk, max) ==
    /\ Cardinality(DOMAIN c) > max
    /\ LET expired == ExpiredKeys(c, now, pk)
           c1 == MapDelete(c, expired)
       IN  ~(expired # {} /\ Cardinality(DOMAIN c1) * 10 <= max * 9)
    /\ DOMAIN c \ pk = {}

\* the microtask queued by get(): () => this.pruneCache()
PruneCache ==
    /\ pruneQueued > 0
    /\ pruneQueued' = pruneQueued - 1
    /\ cache' \in PruneResult(cache, NowSeconds(clock), priorityKeys, maxItems)
    /\ event' = StoreEvent("pruneCache", "", DOMAIN cache \ DOMAIN cache',
                           PruneWarns(cache, NowSeconds(clock), priorityKeys, maxItems))
    /\ UNCHANGED <<clock, isProduction, maxItems, queryRegistry, priorityKeys, prefetchQueue,
                   requestCounter, hits, misses, calls, tasks>>

\* constructor: period of the setInterval that resets requestCounter, ms
ResetInterval(prod) == IF prod THEN 30000 ELSE 10000

\* constructor: period of the setInterval that runs runGarbageCollection, ms
GcInterval(prod) == IF prod THEN 300000 ELSE 60000

\* the last instant before t at which a timer of this period, started at 0, fires
LastDue(interval, t) == ((t - 1) \div interval) * interval

\* Collected with the comparison made strict: an entry that expires at this very
\* second is left in the map
CollectedStrict(c, now, pk) ==
    MapDelete(c, {k \in DOMAIN c : c[k].expiresAt < now /\ k \notin pk})

\* runGarbageCollection(): the map after the expired, non-priority entries are deleted
Collected(c, now, pk) == MapDelete(c, ExpiredKeys(c, now, pk))

\* runGarbageCollection(), the setInterval callback, when the clock is at a multiple
\* of its period
RunGarbageCollection ==
    /\ pruneQueued = 0
    /\ clock > 0
    /\ clock % GcInterval(isProduction) = 0
    /\ cache' = Collected(cache, NowSeconds(clock), priorityKeys)
    /\ event' = NoEvent
    /\ UNCHANGED <<clock, isProduction, maxItems, queryRegistry, priorityKeys,
                   prefetchQueue, requestCounter, hits, misses, calls, tasks, pruneQueued>>

\* constructor: the setInterval callback that resets requestCounter, when the clock
\* is at a multiple of its period
ResetCounter ==
    /\ pruneQueued = 0
    /\ clock > 0
    /\ clock % ResetInterval(isProduction) = 0
    /\ requestCounter' = 0
    /\ event' = NoEvent
    /\ UNCHANGED <<clock, isProduction, maxItems, cache, queryRegistry, priorityKeys,
                   prefetchQueue, hits, misses, calls, tasks, pruneQueued>>

\* time passes to the next instant Date.now() is read at (queued microtasks run
\* first); the two interval timers fire at every multiple of their period passed
\* on the way, where nothing else runs
Tick ==
    /\ pruneQueued = 0
    /\ \E t \in TimePoints :
         /\ t > clock
         /\ clock' = t
         /\ requestCounter' = IF LastDue(ResetInterval(isProduction), t) > clock
                              THEN 0 ELSE requestCounter
         /\ cache' = IF LastDue(GcInterval(isProduction), t) > clock
                     THEN Collected(cache,
                                    NowSeconds(LastDue(GcInterval(isProduction), t)),
                                    priorityKeys)
                     ELSE cache
    /\ event' = NoEvent
    /\ UNCHANGED <<isProduction, maxItems, queryRegistry, priorityKeys, prefetchQueue,
                   hits, misses, calls, tasks, pruneQueued>>

\* ------------------------------------------------------------ specification

\* new QueryCache(): empty maps and sets, counters at 0, in a process started
\* without NODE_ENV=production (the production constants are used by the
\* warmer's, the endpoints' and the thresholds' specifications below)
Init ==
    /\ clock = 0
    /\ isProduction = FALSE
    /\ maxItems \in Capacities
    /\ cache = EmptyMap
    /\ queryRegistry = EmptyMap
    /\ priorityKeys = {}
    /\ prefetchQueue = {}
    /\ requestCounter = 0
    /\ hits = 0
    /\ misses = 0
    /\ calls = EmptyBag
    /\ tasks = EmptyBag
    /\ pruneQueued = 0
    /\ event = NoEvent
    /\ refreshTimers = EmptyBag
    /\ preloads = << >>
    /\ bunHash = EmptyMap
    /\ handlers = EmptyBag
    /\ response = {}

Next ==
    \/ \E k \in Keys, f \in Fns, t \in TTLs, p \in BOOLEAN : Register(k, f, t, p) /\ UNCHANGED <<warmerVars, httpVars>>
    \/ \E k \in Keys, f \in Fns, t \in TTLs : GetHit(k, f, t) /\ UNCHANGED <<warmerVars, httpVars>>
    \/ \E k \in Keys, f \in Fns, t \in TTLs : GetMiss(k, f, t) /\ UNCHANGED <<warmerVars, httpVars>>
    \/ \E c \in BagToSet(calls), v \in Values : GetFill(c, v) /\ UNCHANGED <<warmerVars, httpVars>>
    \/ \E c \in BagToSet(calls) : GetFail(c) /\ UNCHANGED <<warmerVars, httpVars>>
    \/ \E t \in BagToSet(tasks) : PrefetchStart(t) /\ UNCHANGED <<warmerVars, httpVars>>
    \/ \E t \in BagToSet(tasks), v \in Values : PrefetchFill(t, v) /\ UNCHANGED <<warmerVars, httpVars>>
    \/ \E t \in BagToSet(tasks) : PrefetchFail(t) /\ UNCHANGED <<warmerVars, httpVars>>
    \/ \E k \in Keys : Invalidate(k) /\ UNCHANGED <<warmerVars, httpVars>>
    \/ InvalidateAll /\ UNCHANGED <<warmerVars, httpVars>>
    \/ PruneCache /\ UNCHANGED <<warmerVars, httpVars>>
    \/ RunGarbageCollection /\ UNCHANGED <<warmerVars, httpVars>>
    \/ ResetCounter /\ UNCHANGED <<warmerVars, httpVars>>
    \/ Tick /\ UNCHANGED <<warmerVars, httpVars>>

Spec == Init /\ [][Next]_vars

FairSpec ==
    /\ Spec
    /\ WF_vars(Tick /\ UNCHANGED <<warmerVars, httpVars>>)
    /\ WF_vars(PruneCache /\ UNCHANGED <<warmerVars, httpVars>>)
    /\ WF_vars((\E t \in BagToSet(tasks) : PrefetchStart(t)) /\ UNCHANGED <<warmerVars, httpVars>>)
    /\ WF_vars((\E t \in BagToSet(tasks) : PrefetchFail(t) \/ \E v \in Values : PrefetchFill(t, v))
               /\ UNCHANGED <<warmerVars, httpVars>>)

\* ---------------------------------------------- specification with warming

\* the cache used through get() and through warmCache()
WarmNext ==
    \/ Next
    \/ \E k \in Keys : WarmCacheNull(k) /\ UNCHANGED <<warmerVars, httpVars>>
    \/ \E k \in Keys : WarmCacheHit(k) /\ UNCHANGED <<warmerVars, httpVars>>
    \/ \E k \in Keys : WarmCacheMiss(k) /\ UNCHANGED <<warmerVars, httpVars>>

WarmSpec == Init /\ [][WarmNext]_vars

\* ------------------------------------------- specification of the full store

\* the keys of the three cached endpoints of src/src/index.ts
StoreKeys == Keys \cup {"verified_users_stats"}

\* a maxItems argument that three entries exceed
StoreCapacities == {2}

\* the result its query functions resolve to: the data plays no part in what
\* invalidation, pruning and garbage collection remove
StoreValues == {"A"}

\* new QueryCache(defaultTTL, 2), in a process started without
\* NODE_ENV=production
StoreInit ==
    /\ clock = 0
    /\ isProduction = FALSE
    /\ maxItems \in StoreCapacities
    /\ cache = EmptyMap
    /\ queryRegistry = EmptyMap
    /\ priorityKeys = {}
    /\ prefetchQueue = {}
    /\ requestCounter = 0
    /\ hits = 0
    /\ misses = 0
    /\ calls = EmptyBag
    /\ tasks = EmptyBag
    /\ pruneQueued = 0
    /\ event = NoEvent
    /\ refreshTimers = EmptyBag
    /\ preloads = << >>
    /\ bunHash = EmptyMap
    /\ handlers = EmptyBag
    /\ response = {}

\* the store filled by misses on three keys and emptied by invalidation, pruning
\* and garbage collection
StoreNext ==
    \/ \E k \in StoreKeys, f \in Fns, t \in TTLs, p \in BOOLEAN : Register(k, f, t, p) /\ UNCHANGED <<warmerVars, httpVars>>
    \/ \E k \in StoreKeys, f \in Fns, t \in TTLs : GetMiss(k, f, t) /\ UNCHANGED <<warmerVars, httpVars>>
    \/ \E c \in BagToSet(calls), v \in StoreValues : GetFill(c, v) /\ UNCHANGED <<warmerVars, httpVars>>
    \/ \E c \in BagToSet(calls) : GetFail(c) /\ UNCHANGED <<warmerVars, httpVars>>
    \/ \E k \in StoreKeys : Invalidate(k) /\ UNCHANGED <<warmerVars, httpVars>>
    \/ InvalidateAll /\ UNCHANGED <<warmerVars, httpVars>>
    \/ PruneCache /\ UNCHANGED <<warmerVars, httpVars>>
    \/ RunGarbageCollection /\ UNCHANGED <<warmerVars, httpVars>>
    \/ Tick /\ UNCHANGED <<warmerVars, httpVars>>

StoreSpec == StoreInit /\ [][StoreNext]_vars

\* ------------------------------------------------- warming (cacheWarming.ts)

\* runs of preloadCaches() over one behaviour
MaxRuns == 1
\* setTimeout callbacks of invalidateAndRefreshCaches pending at the same time
MaxRefreshTimers == 1

\* new QueryCache(isProduction ? 600 : 300, ...): defaultTTL, seconds
DefaultTTL(prod) == IF prod THEN 600 ELSE 300

\* new QueryCache(..., isProduction ? 1500 : 800): maxItems
GlobalMaxItems(prod) == IF prod THEN 1500 ELSE 800

\* preloadCaches(): the keys of the gets it awaits one after another, "critical
\* caches" in its own words
CriticalKeys ==
    <<"leaderboard_stories", "leaderboard_stories_lite", "total_stories_count",
      "verified_users_stats">>

\* ids of the stories in the database
StoryIds == {1, 2, 3, 4}

\* `story_snapshots_${story.id}`
SnapshotKey(id) == "story_snapshots_" \o ToString(id)

\* the ttl argument of the snapshot gets, seconds
SnapshotTTL == 3600

\* the leaderboard as the database can hold it: story ids in order of position
Leaderboards == {<<2>>, <<3, 1, 4, 2>>}

\* findMany(...) without its limit: every story on the leaderboard
AllStories(board) == board

\* findMany({where isOnLeaderboard, orderBy position, limit: 3})
TopStories(board) == SubSeq(board, 1, IF Len(board) < 3 THEN Len(board) ELSE 3)

\* a run of preloadCaches(): the await it has reached (pc), whether it is
\* suspended there or about to go on, the rows of topStories once it has them,
\* and the timer that began it (none for the call at startup)
PreloadRun(timer) == [pc |-> 1, status |-> "ready", top |-> << >>, timer |-> timer]

\* the await of db.query.stories.findMany comes after the critical gets
QueryStep == Len(CriticalKeys) + 1

\* the key of the get a run has reached
RunKey(run) ==
    IF run.pc < QueryStep THEN CriticalKeys[run.pc]
    ELSE SnapshotKey(run.top[run.pc - QueryStep])

\* its ttl argument: none for the critical gets, 3600 for the snapshots
RunTtl(run, prod) == IF run.pc < QueryStep THEN DefaultTTL(prod) ELSE SnapshotTTL

\* Resume that goes on to the next get although the awaited one is still pending
ResumeEarly(run, status) ==
    LET n == run.pc + 1
    IN  [run EXCEPT !.pc = IF n < QueryStep THEN n ELSE @,
                    !.status = IF n < QueryStep THEN "ready" ELSE status]

\* the run suspended at an await of a get it has just issued
Suspend(run, status) == [run EXCEPT !.status = status]

\* the awaited promise resolved: the run goes on to its next await, or ends after
\* the last row of topStories
Resume(run) ==
    LET n == run.pc + 1
    IN  [run EXCEPT !.pc = n,
                    !.status = IF n > QueryStep + Len(run.top) THEN "done" ELSE "ready"]

\* the awaited promise rejected: the catch block logs and reports the error and
\* preloadCaches() returns
Caught(run) == [run EXCEPT !.status = "caught"]

\* a continuation of preloadCaches() is queued as a microtask: it runs before any
\* timer, request or I/O callback
NoReady == \A r \in DOMAIN preloads : preloads[r].status # "ready"

\* `await preloadCaches()` at startup (src/src/index.ts), before the server
\* listens: the run begins and goes on to its first get
PreloadCaches ==
    /\ preloads = << >>
    /\ requestCounter = 0
    /\ preloads' = <<PreloadRun({})>>
    /\ event' = StoreEvent("preloadCaches", "", {}, FALSE)
    /\ UNCHANGED <<clock, isProduction, maxItems, cache, queryRegistry, priorityKeys,
                   prefetchQueue, requestCounter, hits, misses, calls, tasks, pruneQueued,
                   refreshTimers>>

\* preloadCaches(), `await queryCache.get(key, fn, ttl)` when the entry is live:
\* get() returns without awaiting and the run goes on in a microtask
PreloadHit(r) ==
    /\ r \in DOMAIN preloads
    /\ preloads[r].status = "ready"
    /\ preloads[r].pc # QueryStep
    /\ pruneQueued = 0
    /\ LET run == preloads[r]
           key == RunKey(run)
           ttl == RunTtl(run, isProduction)
           now == NowSeconds(clock)
           cached == MapGet(cache, key)
       IN  /\ IsLive(cached, now)
           /\ requestCounter' = requestCounter + 1
           /\ hits' = hits + 1
           /\ \E item \in cached :
                IF ShouldPrefetch(item, now, ttl, key, priorityKeys, prefetchQueue,
                                  isProduction)
                THEN LET dueAt == clock + PrefetchDelay(key \in priorityKeys,
                                         Cardinality(prefetchQueue \cup {key}),
                                         isProduction)
                     IN  /\ BagCardinality(tasks) < MaxTasks
                         /\ dueAt <= MaxClock
                         /\ prefetchQueue' = prefetchQueue \cup {key}
                         /\ tasks' = tasks (+) SetToBag({PrefetchTask(key, "queryFn", ttl,
                                                                      dueAt)})
                         /\ event' = GetEvent("get", key, ttl, now, cached, "none",
                                              item.data, TRUE, FALSE)
                ELSE /\ UNCHANGED <<prefetchQueue, tasks>>
                     /\ event' = GetEvent("get", key, ttl, now, cached, "none",
                                          item.data, FALSE, FALSE)
           /\ preloads' = [preloads EXCEPT ![r] = Resume(run)]
    /\ UNCHANGED <<clock, isProduction, maxItems, cache, queryRegistry, priorityKeys, misses,
                   calls, pruneQueued, refreshTimers>>

\* PreloadMiss without the test of the stored entry: the run fetches every key it
\* reaches, live or not
PreloadRefetch(r) ==
    /\ r \in DOMAIN preloads
    /\ preloads[r].status = "ready"
    /\ preloads[r].pc # QueryStep
    /\ pruneQueued = 0
    /\ BagCardinality(calls) < MaxCalls
    /\ LET run == preloads[r]
           key == RunKey(run)
           ttl == RunTtl(run, isProduction)
           now == NowSeconds(clock)
           cached == MapGet(cache, key)
       IN  /\ requestCounter' = requestCounter + 1
           /\ misses' = misses + 1
           /\ calls' = calls (+) SetToBag({[GetCall(key, "queryFn", ttl, now, cached)
                                            EXCEPT !.run = r]})
           /\ event' = GetEvent("getMiss", key, ttl, now, cached, "none", "none",
                               FALSE, FALSE)
           /\ preloads' = [preloads EXCEPT ![r] = Suspend(run, "get")]
    /\ UNCHANGED <<clock, isProduction, maxItems, cache, queryRegistry, priorityKeys,
                   prefetchQueue, hits, tasks, pruneQueued, refreshTimers>>

\* preloadCaches(), `await queryCache.get(key, fn, ttl)` when the entry is
\* missing or expired: get() invokes the query function and the run is suspended
\* until get() settles
PreloadMiss(r) ==
    /\ r \in DOMAIN preloads
    /\ preloads[r].status = "ready"
    /\ preloads[r].pc # QueryStep
    /\ pruneQueued = 0
    /\ BagCardinality(calls) < MaxCalls
    /\ LET run == preloads[r]
           key == RunKey(run)
           ttl == RunTtl(run, isProduction)
           now == NowSeconds(clock)
           cached == MapGet(cache, key)
       IN  /\ ~IsLive(cached, now)
           /\ requestCounter' = requestCounter + 1
           /\ misses' = misses + 1
           /\ calls' = calls (+) SetToBag({[GetCall(key, "queryFn", ttl, now, cached)
                                            EXCEPT !.run = r]})
           /\ event' = GetEvent("getMiss", key, ttl, now, cached, "none", "none",
                               FALSE, FALSE)
           /\ preloads' = [preloads EXCEPT ![r] = Suspend(run, "get")]
    /\ UNCHANGED <<clock, isProduction, maxItems, cache, queryRegistry, priorityKeys,
                   prefetchQueue, hits, tasks, pruneQueued, refreshTimers>>

\* the get() a run awaits resolved with the data it fetched
PreloadFill(call, data) ==
    /\ call.run \in DOMAIN preloads
    /\ GetFill(call, data)
    /\ preloads' = [preloads EXCEPT ![call.run] = Resume(@)]
    /\ UNCHANGED refreshTimers

\* the fetch of the get() a run awaits failed: get() resolves with the stale entry
\* it had read, or rejects, and then the catch block of preloadCaches() runs
PreloadFail(call) ==
    /\ call.run \in DOMAIN preloads
    /\ GetFail(call)
    /\ preloads' = [preloads EXCEPT ![call.run] =
                        IF event'.out = "throw" THEN Caught(@) ELSE Resume(@)]
    /\ UNCHANGED refreshTimers

\* preloadCaches(), `await db.query.stories.findMany(...)`: the query is issued
PreloadQuery(r) ==
    /\ r \in DOMAIN preloads
    /\ preloads[r].status = "ready"
    /\ preloads[r].pc = QueryStep
    /\ preloads' = [preloads EXCEPT ![r] = Suspend(@, "query")]
    /\ event' = StoreEvent("topStories", "", {}, FALSE)
    /\ UNCHANGED <<clock, isProduction, maxItems, cache, queryRegistry, priorityKeys,
                   prefetchQueue, requestCounter, hits, misses, calls, tasks, pruneQueued,
                   refreshTimers>>

\* the query resolved with the rows of topStories
PreloadTop(r, board) ==
    /\ r \in DOMAIN preloads
    /\ preloads[r].status = "query"
    /\ preloads' = [preloads EXCEPT ![r] = Resume([@ EXCEPT !.top = TopStories(board)])]
    /\ event' = StoreEvent("topStoriesReturn", "", {}, FALSE)
    /\ UNCHANGED <<clock, isProduction, maxItems, cache, queryRegistry, priorityKeys,
                   prefetchQueue, requestCounter, hits, misses, calls, tasks, pruneQueued,
                   refreshTimers>>

\* the query rejected: the catch block runs
PreloadQueryFail(r) ==
    /\ r \in DOMAIN preloads
    /\ preloads[r].status = "query"
    /\ preloads' = [preloads EXCEPT ![r] = Caught(@)]
    /\ event' = StoreEvent("topStoriesReturn", "", {}, FALSE)
    /\ UNCHANGED <<clock, isProduction, maxItems, cache, queryRegistry, priorityKeys,
                   prefetchQueue, requestCounter, hits, misses, calls, tasks, pruneQueued,
                   refreshTimers>>

\* invalidateAndRefreshCaches(): the setTimeout delay, ms
RefreshDelay == 100

\* RefreshTimer with no delay
RefreshTimerNow(now) == [setAt |-> now, due |-> now]

\* invalidateAndRefreshCaches(): the timer it sets, and when it set it
RefreshTimer(now) == [setAt |-> now, due |-> now + RefreshDelay]

\* invalidateAndRefreshCaches(): queryCache.invalidateAll(), then
\* setTimeout(() => preloadCaches().catch(...), 100)
InvalidateAndRefreshCaches ==
    /\ clock + RefreshDelay <= MaxClock
    /\ InvalidateAll
    /\ refreshTimers' = refreshTimers (+) SetToBag({RefreshTimer(clock)})
    /\ UNCHANGED preloads

\* the timer callback of invalidateAndRefreshCaches(): preloadCaches() begins
RefreshStart(timer) ==
    /\ BagIn(timer, refreshTimers)
    /\ clock >= timer.due
    /\ refreshTimers' = refreshTimers (-) SetToBag({timer})
    /\ preloads' = Append(preloads, PreloadRun({timer}))
    /\ event' = StoreEvent("preloadCaches", "", {}, FALSE)
    /\ UNCHANGED <<clock, isProduction, maxItems, cache, queryRegistry, priorityKeys,
                   prefetchQueue, requestCounter, hits, misses, calls, tasks, pruneQueued>>

\* keys the endpoints of src/src/index.ts ask for while the warmer runs
EndpointKeys == {SnapshotKey(2)}

\* instants the warmer is observed at
PreloadTimes == {0, 295900, 296000}

\* the global queryCache: new QueryCache(isProduction ? 600 : 300,
\* isProduction ? 1500 : 800)
PreloadInit ==
    /\ clock = 0
    /\ isProduction \in BOOLEAN
    /\ maxItems = GlobalMaxItems(isProduction)
    /\ cache = EmptyMap
    /\ queryRegistry = EmptyMap
    /\ priorityKeys = {}
    /\ prefetchQueue = {}
    /\ requestCounter = 0
    /\ hits = 0
    /\ misses = 0
    /\ calls = EmptyBag
    /\ tasks = EmptyBag
    /\ pruneQueued = 0
    /\ event = NoEvent
    /\ refreshTimers = EmptyBag
    /\ preloads = << >>
    /\ bunHash = EmptyMap
    /\ handlers = EmptyBag
    /\ response = {}

\* the warmer, the endpoints' gets and the prefetches they schedule
PreloadNext ==
    \/ PreloadCaches /\ UNCHANGED httpVars
    \/ /\ NoReady
       /\ BagCardinality(refreshTimers) < MaxRefreshTimers
       /\ InvalidateAndRefreshCaches
       /\ UNCHANGED httpVars
    \/ \E timer \in BagToSet(refreshTimers) :
         NoReady /\ Len(preloads) < MaxRuns /\ RefreshStart(timer) /\ UNCHANGED httpVars
    \/ \E r \in DOMAIN preloads : PreloadHit(r) /\ UNCHANGED httpVars
    \/ \E r \in DOMAIN preloads : PreloadMiss(r) /\ UNCHANGED httpVars
    \/ \E r \in DOMAIN preloads : PreloadQuery(r) /\ UNCHANGED httpVars
    \/ \E r \in DOMAIN preloads, board \in Leaderboards : NoReady /\ PreloadTop(r, board) /\ UNCHANGED httpVars
    \/ \E r \in DOMAIN preloads : NoReady /\ PreloadQueryFail(r) /\ UNCHANGED httpVars
    \/ \E c \in BagToSet(calls), v \in StoreValues : NoReady /\ PreloadFill(c, v) /\ UNCHANGED httpVars
    \/ \E c \in BagToSet(calls) : NoReady /\ PreloadFail(c) /\ UNCHANGED httpVars
    \/ \E k \in EndpointKeys, f \in Fns, t \in TTLs :
         NoReady /\ GetHit(k, f, t) /\ UNCHANGED <<warmerVars, httpVars>>
    \/ \E k \in EndpointKeys, f \in Fns, t \in TTLs :
         NoReady /\ GetMiss(k, f, t) /\ UNCHANGED <<warmerVars, httpVars>>
    \/ \E c \in BagToSet(calls), v \in StoreValues :
         NoReady /\ c.run = 0 /\ GetFill(c, v) /\ UNCHANGED <<warmerVars, httpVars>>
    \/ \E c \in BagToSet(calls) : NoReady /\ c.run = 0 /\ GetFail(c) /\ UNCHANGED <<warmerVars, httpVars>>
    \/ \E t \in BagToSet(tasks) : NoReady /\ PrefetchStart(t) /\ UNCHANGED <<warmerVars, httpVars>>
    \/ \E t \in BagToSet(tasks), v \in StoreValues :
         NoReady /\ PrefetchFill(t, v) /\ UNCHANGED <<warmerVars, httpVars>>
    \/ \E t \in BagToSet(tasks) : NoReady /\ PrefetchFail(t) /\ UNCHANGED <<warmerVars, httpVars>>
    \/ NoReady /\ Tick /\ clock' \in PreloadTimes /\ UNCHANGED <<warmerVars, httpVars>>

PreloadSpec == PreloadInit /\ [][PreloadNext]_vars

\* ------------------------------------------ endpoints (createCachedEndpoint)

\* `version` of package.json, part of every ETag
Version == "version"

\* JSON.stringify(data)
Serialize(data) == "[\"" \o data \o "\"]"

\* what Bun.hash(dataStr).toString(36).slice(0, 12) can be: fewer digests than
\* strings, so two strings can share one
Digests == {"d1", "d2"}

\* Bun.hash is a function of the string alone; which function is not modelled,
\* any one of them can be the one the program runs with
HashFunctions == [{Serialize(v) : v \in Values} -> Digests]

\* createCacheHeaders(): `if (data)`; the query functions of src/src/index.ts
\* resolve to arrays and objects, of the falsy values only "" is a string
Truthy(data) == data # ""

\* ETag that leaves the data out: `"${version}-${key}"`
ETagOfKey(key, maxAge, data, now, hash) == "\"" \o Version \o "-" \o key \o "\""

\* createCacheHeaders(): `"${version}-${key}-${dataHash}"` when data is given,
\* else `"${version}-${key}-${Math.floor(Date.now() / (maxAge * 1000))}"`
ETag(key, maxAge, data, now, hash) ==
    IF Truthy(data)
    THEN "\"" \o Version \o "-" \o key \o "-" \o hash[Serialize(data)] \o "\""
    ELSE "\"" \o Version \o "-" \o key \o "-" \o ToString(now \div (maxAge * 1000)) \o "\""

\* values whose serialization has 1024 characters or more
LargeValues == {"B"}

\* Accept-Encoding headers of a request: none, or one compressResponse() supports
\* ("deflate" takes the same way through it as "gzip")
AcceptEncodings == {"", "gzip"}

\* compressResponse(): the Content-Encoding it can give a JSON body; a body under
\* 1024 characters is sent as it is, and so is one the compression did not shrink
ContentEncodings(acceptEncoding, data) ==
    IF acceptEncoding = "" \/ data \notin LargeValues THEN {"none"}
    ELSE {"none", acceptEncoding}

\* ERROR_RESPONSE: the body of the pre-built error response
ErrorBody == "{\"error\":\"An error occurred processing your request\",\"code\":\"INTERNAL_SERVER_ERROR\"}"

\* a Response, with the key, the request and the resolved value it answers
HttpResponse(status, body, etag, encoding, key, req, data) ==
    [status |-> status, body |-> body, etag |-> etag, encoding |-> encoding,
     key |-> key, req |-> req, data |-> data]

\* NotModified without the comparison: every request that carries the header
\* is answered 304
AnyValidator(req, etag) == req.ifNoneMatch # {}

\* createCachedEndpoint(): clientETag && clientETag === headers.ETag
NotModified(req, etag) == req.ifNoneMatch = {etag}

\* ErrorResponses that passes the message of the exception to the client
LeakyResponses(key, req) ==
    {HttpResponse(500, "{\"error\":\"queryFn failed\"}", {}, "none", key, req, "throw")}

\* createCachedEndpoint(), catch block: errorResponse.clone()
ErrorResponses(key, req) ==
    {HttpResponse(500, ErrorBody, {}, "none", key, req, "throw")}

\* createCachedEndpoint(), after `await queryCache.get(...)` resolved with data:
\* 304 with the ETag and no body, or the serialized data, compressed or not
OkResponses(key, ttl, data, req, now, hash) ==
    LET etag == ETag(key, ttl, data, now, hash)
    IN  IF NotModified(req, etag)
        THEN {HttpResponse(304, "", {etag}, "none", key, req, data)}
        ELSE {HttpResponse(200, Serialize(data), {etag}, enc, key, req, data) :
                enc \in ContentEncodings(req.acceptEncoding, data)}

\* what the handler returns once get() has settled with `out`
Responses(key, ttl, out, req, now, hash) ==
    IF out = "throw" THEN ErrorResponses(key, req)
    ELSE OkResponses(key, ttl, out, req, now, hash)

\* the keys of the endpoints, and the ttl they are created with
HandlerKeys == {"leaderboard_stories"}
HandlerTTL == 300

\* If-None-Match headers: none, an ETag the endpoint can have issued, or another
\* string
Validators(key) ==
    {{}} \cup {{ETag(key, HandlerTTL, v, 0, h)} : v \in Values, h \in HashFunctions}
         \cup {{"W/\"other\""}}

\* requests to the endpoint of a key
Requests(key) == [ifNoneMatch : Validators(key), acceptEncoding : AcceptEncodings]

\* createCachedEndpoint(): cacheKey === "leaderboard_stories" || isPriority
DefaultToPriority(key, isPriority) == key = "leaderboard_stories" \/ isPriority

\* handler, entry live: get() returns in the same step and the handler answers
HandlerHit(key, req) ==
    /\ GetHit(key, "queryFn", HandlerTTL)
    /\ \E resp \in Responses(key, HandlerTTL, event'.out, req, clock, bunHash) :
         response' = {resp}
    /\ UNCHANGED <<bunHash, handlers>>

\* handler, entry missing or expired: suspended at `await queryCache.get(...)`
HandlerMiss(key, req) ==
    /\ GetMiss(key, "queryFn", HandlerTTL)
    /\ handlers' = handlers (+) SetToBag({[call |-> GetCall(key, "queryFn", HandlerTTL,
                                                           NowSeconds(clock),
                                                           MapGet(cache, key)),
                                           req |-> req]})
    /\ UNCHANGED <<bunHash, response>>

\* handler, the awaited get() resolved with the data it fetched
HandlerFill(h, data) ==
    /\ BagIn(h, handlers)
    /\ GetFill(h.call, data)
    /\ handlers' = handlers (-) SetToBag({h})
    /\ \E resp \in Responses(h.call.key, HandlerTTL, event'.out, h.req, clock, bunHash) :
         response' = {resp}
    /\ UNCHANGED bunHash

\* handler, the fetch of the awaited get() failed: get() resolves with the stale
\* entry or rejects, and then the catch block answers
HandlerFail(h) ==
    /\ BagIn(h, handlers)
    /\ GetFail(h.call)
    /\ handlers' = handlers (-) SetToBag({h})
    /\ \E resp \in Responses(h.call.key, HandlerTTL, event'.out, h.req, clock, bunHash) :
         response' = {resp}
    /\ UNCHANGED bunHash

\* after Bun.serve() created the endpoints: each has registered its key
EndpointInit ==
    /\ clock = 0
    /\ isProduction \in BOOLEAN
    /\ maxItems = GlobalMaxItems(isProduction)
    /\ cache = EmptyMap
    /\ queryRegistry = [k \in HandlerKeys |->
                          [fn |-> "queryFn", ttl |-> HandlerTTL,
                           priority |-> DefaultToPriority(k, FALSE)]]
    /\ priorityKeys = {k \in HandlerKeys : DefaultToPriority(k, FALSE)}
    /\ prefetchQueue = {}
    /\ requestCounter = 0
    /\ hits = 0
    /\ misses = 0
    /\ calls = EmptyBag
    /\ tasks = EmptyBag
    /\ pruneQueued = 0
    /\ event = NoEvent
    /\ refreshTimers = EmptyBag
    /\ preloads = << >>
    /\ bunHash \in HashFunctions
    /\ handlers = EmptyBag
    /\ response = {}

\* requests to the endpoints and the prefetches they schedule
EndpointNext ==
    \/ \E k \in HandlerKeys : \E req \in Requests(k) :
         HandlerHit(k, req) /\ UNCHANGED warmerVars
    \/ \E k \in HandlerKeys : \E req \in Requests(k) :
         HandlerMiss(k, req) /\ UNCHANGED warmerVars
    \/ \E h \in BagToSet(handlers), v \in Values : HandlerFill(h, v) /\ UNCHANGED warmerVars
    \/ \E h \in BagToSet(handlers) : HandlerFail(h) /\ UNCHANGED warmerVars
    \/ \E t \in BagToSet(tasks) : PrefetchStart(t) /\ UNCHANGED <<warmerVars, httpVars>>
    \/ \E t \in BagToSet(tasks), v \in Values : PrefetchFill(t, v) /\ UNCHANGED <<warmerVars, httpVars>>
    \/ \E t \in BagToSet(tasks) : PrefetchFail(t) /\ UNCHANGED <<warmerVars, httpVars>>
    \/ Tick /\ UNCHANGED <<warmerVars, httpVars>>

EndpointSpec == EndpointInit /\ [][EndpointNext]_vars

\* ----------------------------------- specification of the prefetch threshold

\* ttl arguments of the hits: with 5 or 4 seconds left to expiry they fall on
\* both sides of each of the thresholds 5 %, 15 % and 25 %
ThresholdTTLs == {30, 60, 300}

\* the global cache read by callers that pass different ttl arguments for a key:
\* registrations with and without priority, misses that fill the entries, hits
\* near expiry and the prefetches they schedule
ThresholdNext ==
    \/ \E k \in Keys, f \in Fns, t \in TTLs, p \in BOOLEAN :
         Register(k, f, t, p) /\ UNCHANGED <<warmerVars, httpVars>>
    \/ \E k \in Keys, f \in Fns, t \in ThresholdTTLs :
         GetHit(k, f, t) /\ UNCHANGED <<warmerVars, httpVars>>
    \/ \E k \in Keys, f \in Fns, t \in TTLs :
         GetMiss(k, f, t) /\ UNCHANGED <<warmerVars, httpVars>>
    \/ \E c \in BagToSet(calls), v \in StoreValues :
         GetFill(c, v) /\ UNCHANGED <<warmerVars, httpVars>>
    \/ \E t \in BagToSet(tasks) : PrefetchStart(t) /\ UNCHANGED <<warmerVars, httpVars>>
    \/ \E t \in BagToSet(tasks), v \in StoreValues :
         PrefetchFill(t, v) /\ UNCHANGED <<warmerVars, httpVars>>
    \/ Tick /\ UNCHANGED <<warmerVars, httpVars>>

ThresholdSpec == PreloadInit /\ [][ThresholdNext]_vars

\* --------------------------- specification of invalidateAndRefreshCaches

\* createCachedEndpoint(cacheKey, queryFn, ttl), up to the handler it returns:
\* queryCache.register(cacheKey, queryFn, ttl, defaultToPriority)
CreateCachedEndpoint(key) ==
    Register(key, "queryFn", HandlerTTL, DefaultToPriority(key, FALSE))

\* runs of preloadCaches() over one behaviour: the one at startup and those the
\* timers start
MaxRefreshRuns == 3
\* setTimeout callbacks of invalidateAndRefreshCaches pending at the same time
MaxPendingRefreshes == 2

\* rows the leaderboard query returns while the caches are refreshed: none, the
\* table is empty
RefreshBoards == {<< >>}

\* instants the clock is read at: startup, and once the 100 ms have passed
RefreshTimes == {0, 295900}

\* checkHackerNews() calling invalidateAndRefreshCaches() after processing and
\* again after cleanup, the timers they set, and the runs of preloadCaches();
\* checkHackerNews() first runs from a timer that setup() sets 3 s ahead, just
\* before index.ts calls preloadCaches(): here the run made at startup has ended
\* by then. Bun.serve(), which index.ts calls once that run has ended, creates
\* the endpoints
RefreshNext ==
    \/ PreloadCaches /\ UNCHANGED httpVars
    \/ \E k \in HandlerKeys :
         /\ NoReady
         /\ preloads # << >>
         /\ preloads[1].status \in {"done", "caught"}
         /\ k \notin priorityKeys
         /\ CreateCachedEndpoint(k)
         /\ UNCHANGED <<warmerVars, httpVars>>
    \/ /\ NoReady
       /\ preloads # << >>
       /\ preloads[1].status \in {"done", "caught"}
       /\ BagCardinality(refreshTimers) < MaxPendingRefreshes
       /\ InvalidateAndRefreshCaches
       /\ UNCHANGED httpVars
    \/ \E timer \in BagToSet(refreshTimers) :
         NoReady /\ Len(preloads) < MaxRefreshRuns /\ RefreshStart(timer) /\ UNCHANGED httpVars
    \/ \E r \in DOMAIN preloads : PreloadHit(r) /\ UNCHANGED httpVars
    \/ \E r \in DOMAIN preloads : PreloadMiss(r) /\ UNCHANGED httpVars
    \/ \E r \in DOMAIN preloads : PreloadQuery(r) /\ UNCHANGED httpVars
    \/ \E r \in DOMAIN preloads, board \in RefreshBoards :
         NoReady /\ PreloadTop(r, board) /\ UNCHANGED httpVars
    \/ \E r \in DOMAIN preloads : NoReady /\ PreloadQueryFail(r) /\ UNCHANGED httpVars
    \/ \E c \in BagToSet(calls), v \in StoreValues : NoReady /\ PreloadFill(c, v) /\ UNCHANGED httpVars
    \/ \E c \in BagToSet(calls) : NoReady /\ PreloadFail(c) /\ UNCHANGED httpVars
    \/ NoReady /\ Tick /\ clock' \in RefreshTimes /\ UNCHANGED <<warmerVars, httpVars>>

RefreshSpec == PreloadInit /\ [][RefreshNext]_vars

\* ------------------------------------------------------------------ claims

\* every step the cache can take from the current state satisfies A: what
\* [][A]_vars says of Spec, stated of the state the step starts in
EveryStep(A) == ~ENABLED (Next /\ vars' # vars /\ ~A)

\* the same for the steps of the full store
EveryStoreStep(A) == ~ENABLED (StoreNext /\ vars' # vars /\ ~A)

\* the same for the steps of the cache with its warmer
EveryPreloadStep(A) == ~ENABLED (PreloadNext /\ vars' # vars /\ ~A)

\* the step just taken is a get() call handing a value to its caller
GetReturned == event.op \in {"get", "getReturn"} /\ event.out \in Values

\* C1: a value returned by get is the data of an entry that was live when get
\* checked it, or the result of the fetch this call awaited, or the stale value of
\* the entry it had checked, handed back with the stale signal after its fetch
\* failed; a call that awaited no fetch never returns an entry with now >= expiresAt
C1_ReturnProvenance ==
    GetReturned =>
        \/ /\ event.fetch = "none"
           /\ event.cached = MapGet(cache, event.key)
           /\ event.now = NowSeconds(clock)
           /\ \E c \in event.cached : c.expiresAt > event.now /\ event.out = c.data
        \/ /\ event.fetch \in Values
           /\ event.out = event.fetch
        \/ /\ event.fetch = "throw"
           /\ event.staleSignal
           /\ \E c \in event.cached : c.expiresAt <= event.now /\ event.out = c.data

\* C1 witness: a hit served five seconds before the entry expires
C1_Witness ==
    /\ event.op = "get"
    /\ \E c \in event.cached : c.expiresAt - event.now = 5 /\ event.out = c.data

\* C2: a get issued while the key's entry has now < expiresAt returns that entry's
\* data without awaiting a fetch; it changes nothing but the counters and, possibly,
\* the prefetch queue (with the timer of that prefetch); and an entry is only ever
\* written by a committed fill of its key, with the data that fill fetched
C2_HitFrame ==
    EveryStep(
       /\ \A k \in Keys :
            ( /\ event'.op \in {"get", "getMiss"}
              /\ event'.key = k
              /\ k \in DOMAIN cache
              /\ NowSeconds(clock) < cache[k].expiresAt )
            => /\ event'.op = "get"
               /\ event'.fetch = "none"
               /\ event'.out = cache[k].data
               /\ calls' = calls
               /\ cache' = cache
               /\ queryRegistry' = queryRegistry
               /\ priorityKeys' = priorityKeys
               /\ pruneQueued' = pruneQueued
               /\ requestCounter' = requestCounter + 1
               /\ hits' = hits + 1
               /\ misses' = misses
               /\ prefetchQueue' \in {prefetchQueue, prefetchQueue \cup {k}}
               /\ (event'.scheduled <=> tasks' # tasks)
               /\ (~event'.scheduled => prefetchQueue' = prefetchQueue)
       /\ \A k \in DOMAIN cache' :
            (k \notin DOMAIN cache \/ cache'[k] # cache[k])
            => /\ event'.op \in {"getReturn", "prefetchFill"}
               /\ event'.key = k
               /\ event'.fetch = cache'[k].data
      )

\* C2 witness: a hit on an entry that a prefetch has replaced since the miss fill
C2_Witness ==
    /\ event.op = "get"
    /\ event.out \in Values
    /\ hits + misses = 2
    /\ \E c \in event.cached : c.timestamp > 0 /\ event.now > c.timestamp

\* C3: a miss fill stores {data, timestamp: now, expiresAt: now + ttl} with the now
\* and ttl of its call and returns the fetched value; a prefetch fill stores an
\* entry whose expiresAt - timestamp is the nominal ttl, or the ttl extended by
\* min(3, 1 + queryTime/1000) when the query took more than 200 ms
C3_FillTtl ==
    /\ (event.op = "getReturn" /\ event.fetch \in Values)
       => /\ event.key \in DOMAIN cache
          /\ cache[event.key].data = event.fetch
          /\ cache[event.key].timestamp = event.now
          /\ cache[event.key].expiresAt = event.now + event.ttl
          /\ cache[event.key].expiresAt - cache[event.key].timestamp = event.ttl
          /\ event.out = event.fetch
    /\ event.op = "prefetchFill"
       => /\ event.key \in DOMAIN cache
          /\ cache[event.key].expiresAt - cache[event.key].timestamp
               = IF event.queryTime <= 200 THEN event.ttl
                 ELSE IF event.queryTime >= 2000 THEN 3 * event.ttl
                 ELSE (event.ttl * (1000 + event.queryTime)) \div 1000

\* C3 witness: a miss fill whose fetch took seconds, so that now is in the past
C3_Witness ==
    /\ event.op = "getReturn"
    /\ event.fetch \in Values
    /\ event.now < NowSeconds(clock)

\* C4: when the entry get checked had expired and the awaited fetch fails, get hands
\* back that entry's data instead of the error, reports it (console.warn and
\* Sentry), and leaves the store as it is
C4_StaleOnError ==
    EveryStep(
       ( /\ event'.op = "getReturn"
         /\ event'.fetch = "throw"
         /\ \E c \in event'.cached : c.expiresAt <= event'.now )
       => /\ \E c \in event'.cached : event'.out = c.data
          /\ event'.out # "throw"
          /\ event'.staleSignal
          /\ cache' = cache
      )

\* C4 witness: value A served stale, with the signal, after the fetch failed
C4_Witness ==
    /\ event.op = "getReturn"
    /\ event.fetch = "throw"
    /\ event.out = "A"
    /\ event.staleSignal
    /\ event.key \in DOMAIN cache

\* C5: on a fetch failure get returns a stale value only if the key still has an
\* entry in the store; if the entry was removed while the fetch was in flight the
\* error propagates
C5_StaleOnlyIfStored ==
    (event.op = "getReturn" /\ event.fetch = "throw" /\ event.key \notin DOMAIN cache)
    => event.out = "throw"

\* C6: when get found no entry for the key and its fetch fails, the error reaches
\* the caller, and neither an entry nor a registration is created
C6_ErrorPropagates ==
    EveryStep(
       ( /\ event'.op = "getReturn"
         /\ event'.fetch = "throw"
         /\ event'.cached = {} )
       => /\ event'.out = "throw"
          /\ ~event'.staleSignal
          /\ cache' = cache
          /\ queryRegistry' = queryRegistry
          /\ priorityKeys' = priorityKeys
      )

\* C6 witness: the error propagated for a key with no entry and no registration
C6_Witness ==
    /\ event.op = "getReturn"
    /\ event.fetch = "throw"
    /\ event.out = "throw"
    /\ event.key \notin DOMAIN cache
    /\ event.key \notin DOMAIN queryRegistry

\* prefetch callbacks of a key whose timer is pending or whose fetch is awaited
TasksOf(k) == {t \in BagToSet(tasks) : t.key = k}

\* C7: for every key at most one prefetch is scheduled or in flight
C7_OnePrefetchPerKey ==
    \A k \in Keys :
        /\ Cardinality(TasksOf(k)) <= 1
        /\ \A t \in TasksOf(k) : CopiesIn(t, tasks) = 1

\* C7 witness: a hit close to expiry that scheduled nothing because the key's
\* prefetch is already under way
C7_Witness ==
    /\ event.op = "get"
    /\ ~event.scheduled
    /\ \E c \in event.cached : c.expiresAt - event.now = 5
    /\ TasksOf(event.key) # {}

\* C8: a key is in the prefetch queue exactly while a prefetch of it is scheduled or
\* its fetch is awaited, and, every fetch settling, a queued key is eventually
\* removed (on success and on failure alike): the key is out of the queue again
\* and again, which is (k \in prefetchQueue) ~> (k \notin prefetchQueue)
C8_QueueMembership ==
    /\ [](\A k \in Keys : k \in prefetchQueue <=> TasksOf(k) # {})
    /\ \A k \in Keys : []<>(k \notin prefetchQueue)

\* C8 witness: a prefetch whose fetch failed has left the queue
C8_Witness ==
    /\ event.op = "prefetchFail"
    /\ event.key \notin prefetchQueue
    /\ TasksOf(event.key) = {}

\* C9: a get that schedules a prefetch hands back the cached value in that same
\* step, suspends no caller, and leaves the prefetch as a pending timer; a
\* prefetch's queryFn is invoked only by the timer callback, a later step
C9_PrefetchInBackground ==
    EveryStep(
       /\ (event'.op = "get" /\ event'.scheduled)
          => /\ event'.key \in DOMAIN cache
             /\ event'.out = cache[event'.key].data
             /\ calls' = calls
             /\ \E t \in BagToSet(tasks') : t.key = event'.key /\ t.phase = "timer"
       /\ \A t \in BagToSet(tasks') :
            (t.phase = "fetch" /\ ~BagIn(t, tasks))
            => /\ event'.op = "prefetchStart"
               /\ event'.key = t.key
               /\ calls' = calls
      )

\* C9 witness: the state right after a get scheduled a prefetch
C9_Witness ==
    /\ event.op = "get"
    /\ event.scheduled
    /\ \E t \in TasksOf(event.key) : t.phase = "timer"

\* the scenario of C10 around the prefetch fill: a get at t=295 on the entry filled
\* at t=0 with ttl=300 leaves the key queued for prefetch, and a get at t=300 on the
\* entry {B, 296, 596} is a hit that returns B
C10_Scenario ==
    /\ ( /\ event.op = "get"
         /\ event.now = 295
         /\ event.ttl = 300
         /\ event.cached = {CacheItem("A", 0, 300)} )
       => event.key \in prefetchQueue
    /\ ( /\ event.op \in {"get", "getMiss"}
         /\ event.now = 300
         /\ event.cached = {CacheItem("B", 296, 596)} )
       => (event.op = "get" /\ event.out = "B")

\* C10 as stated: a prefetch of ttl=300 that resolves at t=296 with B replaces the
\* entry by {B, 296, 596}
C10_AsStated ==
    /\ C10_Scenario
    /\ (event.op = "prefetchFill" /\ event.now = 296 /\ event.ttl = 300
        /\ event.fetch = "B")
       => cache[event.key] = CacheItem("B", 296, 596)

\* C10 amended: it does so when the prefetch's query took at most 200 ms; a slower
\* query extends the ttl, and expiresAt is 296 + the extended ttl
C10_Amended ==
    /\ C10_Scenario
    /\ (event.op = "prefetchFill" /\ event.now = 296 /\ event.ttl = 300
        /\ event.fetch = "B")
       => /\ event.queryTime <= 200 => cache[event.key] = CacheItem("B", 296, 596)
          /\ event.queryTime > 200
             => /\ cache[event.key].data = "B"
                /\ cache[event.key].timestamp = 296
                /\ cache[event.key].expiresAt > 596

\* C10 witness: the get at t=300 that returns B from the prefetched entry
C10_Witness ==
    /\ event.op = "get"
    /\ event.now = 300
    /\ event.out = "B"
    /\ event.cached = {CacheItem("B", 296, 596)}

\* C11: when the query of a background prefetch fails, nothing is handed to any
\* get caller (no suspended call is resumed, the step hands nothing out) and the
\* store, the key's entry with it, is left as it was; an error reaches a get caller
\* only from the fetch that call itself awaited
C11_PrefetchErrorSwallowed ==
    EveryStep(
       /\ event'.op = "prefetchFail"
          => /\ event'.fetch = "throw"
             /\ event'.out = "none"
             /\ calls' = calls
             /\ cache' = cache
       /\ event'.out = "throw"
          => /\ event'.op = "getReturn"
             /\ event'.fetch = "throw"
             /\ calls' # calls
      )

\* C11 witness: a prefetch failed five seconds before the entry {A, 0, 300} expires,
\* and the entry is still the one stored
C11_Witness ==
    /\ event.op = "prefetchFail"
    /\ event.now = 295
    /\ event.key \in DOMAIN cache
    /\ cache[event.key] = CacheItem("A", 0, 300)

\* C12: a run of pruneCache removes no entry whose key is in priorityKeys at that
\* moment, and leaves each of them as it was, whatever the timestamps and expiry of
\* the entries; with maxItems = 2 and three entries of which one is priority, that
\* entry is in the store after pruneCache
C12_PruneSparesPriority ==
    EveryStoreStep(
       event'.op = "pruneCache"
       => /\ event'.removed \cap priorityKeys = {}
          /\ \A k \in DOMAIN cache \cap priorityKeys :
                k \in DOMAIN cache' /\ cache'[k] = cache[k]
      )

\* C12 witness: maxItems = 2, pruneCache ran on three entries and removed some; the
\* one priority entry among them, expired and the oldest left, is still there
C12_Witness ==
    /\ event.op = "pruneCache"
    /\ maxItems = 2
    /\ event.removed # {}
    /\ Cardinality(DOMAIN cache \cup event.removed) = 3
    /\ Cardinality(priorityKeys \cap (DOMAIN cache \cup event.removed)) = 1
    /\ \E k \in priorityKeys \cap DOMAIN cache :
          /\ cache[k].expiresAt <= NowSeconds(clock)
          /\ \A j \in DOMAIN cache : cache[k].timestamp <= cache[j].timestamp

\* C13: after invalidateAll the entry map is the previous one restricted to the
\* priority keys: each priority entry is kept with the same data, timestamp and
\* expiresAt, every other entry is removed
C13_InvalidateAllFrame ==
    EveryStep(
       event'.op = "invalidateAll"
       => /\ DOMAIN cache' = DOMAIN cache \cap priorityKeys
          /\ \A k \in DOMAIN cache' : cache'[k] = cache[k]
          /\ event'.removed = DOMAIN cache \ priorityKeys
          /\ priorityKeys' = priorityKeys
      )

\* C13 witness: invalidateAll removed an entry and kept a priority entry
C13_Witness ==
    /\ event.op = "invalidateAll"
    /\ event.removed # {}
    /\ DOMAIN cache # {}
    /\ DOMAIN cache \subseteq priorityKeys

\* C14: invalidateAll keeps, unchanged, the entry of every key whose registration
\* has priority = true, and a get on such a key that follows the invalidation,
\* the kept entry being live, hands back the data the entry had before, awaits no
\* fetch and suspends no caller
C14_PrioritySurvival ==
    EveryStep(
       /\ event'.op = "invalidateAll"
          => \A k \in DOMAIN cache \cap DOMAIN queryRegistry :
                queryRegistry[k].priority
                => /\ k \in DOMAIN cache'
                   /\ cache'[k] = cache[k]
                   /\ IsLive(MapGet(cache, k), NowSeconds(clock))
                      => IsLive(MapGet(cache', k), NowSeconds(clock'))
       /\ ( /\ event.op = "invalidateAll"
            /\ event'.op \in {"get", "getMiss"}
            /\ event'.key \in DOMAIN queryRegistry
            /\ queryRegistry[event'.key].priority
            /\ IsLive(MapGet(cache, event'.key), NowSeconds(clock)) )
          => /\ event'.op = "get"
             /\ event'.fetch = "none"
             /\ event'.out = cache[event'.key].data
             /\ calls' = calls
      )

\* C14 witness: invalidateAll has removed an entry, the live entry of a key
\* registered with priority = true is in the store, and a get can follow
C14_Witness ==
    /\ event.op = "invalidateAll"
    /\ event.removed # {}
    /\ hits + misses < MaxRequests
    /\ \E k \in DOMAIN cache \cap DOMAIN queryRegistry :
          /\ queryRegistry[k].priority
          /\ IsLive(MapGet(cache, k), NowSeconds(clock))

\* C15: invalidate(key) deletes the entry of key if there is one and changes
\* nothing otherwise; the entries of the other keys, the registry, the priority
\* keys, the prefetch queue and the pending prefetches are left as they were
C15_InvalidateFrame ==
    EveryStep(
       event'.op = "invalidate"
       => /\ DOMAIN cache' = DOMAIN cache \ {event'.key}
          /\ \A j \in DOMAIN cache' : cache'[j] = cache[j]
          /\ event'.key \notin DOMAIN cache => cache' = cache
          /\ queryRegistry' = queryRegistry
          /\ priorityKeys' = priorityKeys
          /\ prefetchQueue' = prefetchQueue
          /\ tasks' = tasks
      )

\* C15 witness: invalidate removed the entry of a registered priority key whose
\* prefetch is queued, while another key has an entry
C15_Witness ==
    /\ event.op = "invalidate"
    /\ event.removed = {event.key}
    /\ event.key \in DOMAIN queryRegistry
    /\ event.key \in priorityKeys
    /\ event.key \in prefetchQueue
    /\ DOMAIN cache # {}

\* C16: register(key, fn, ttl, priority) leaves key registered with exactly (fn,
\* ttl, priority), whatever registration it had, and marked priority exactly if
\* priority is true; the other keys' registrations and priority marks and every
\* cache entry are unchanged; and registering the same arguments once more
\* changes nothing
C16_RegisterUpsert ==
    EveryStep(
       \A k \in {event'.key} \cap Keys, f \in Fns, t \in TTLs, p \in BOOLEAN :
          (event'.op = "register" /\ Register(k, f, t, p))
          => /\ DOMAIN queryRegistry' = DOMAIN queryRegistry \cup {k}
             /\ queryRegistry'[k] = [fn |-> f, ttl |-> t, priority |-> p]
             /\ \A j \in DOMAIN queryRegistry \ {k} : queryRegistry'[j] = queryRegistry[j]
             /\ (k \in priorityKeys') <=> p
             /\ priorityKeys' \ {k} = priorityKeys \ {k}
             /\ cache' = cache
             /\ RegistrySet(queryRegistry', k, f, t, p) = queryRegistry'
             /\ PrioritySet(priorityKeys', k, p) = priorityKeys'
      )

\* C16 witness: register has made priority a key that has an entry, hence had a
\* registration already, while the other key is registered too
C16_Witness ==
    /\ event.op = "register"
    /\ event.key \in DOMAIN cache
    /\ queryRegistry[event.key].priority
    /\ event.key \in priorityKeys
    /\ DOMAIN queryRegistry = Keys

\* C17: no step removes a registration, and a registration changes only when
\* register() is called for its key, so the registered keys never become fewer;
\* warmCache gives up with null only on a key that has no registration, and on a
\* registered key without a live entry it awaits the registered function with
\* the registered ttl, whose result it stores and hands back
C17_RegistrationsOutliveEntries ==
    [][/\ DOMAIN queryRegistry \subseteq DOMAIN queryRegistry'
       /\ \A k \in DOMAIN queryRegistry :
             queryRegistry'[k] # queryRegistry[k]
             => (event'.op = "register" /\ event'.key = k)
       /\ event'.op = "warmCache" => event'.key \notin DOMAIN queryRegistry
       /\ \A c \in BagToSet(calls') :
             (c.warm /\ ~BagIn(c, calls))
             => /\ c.key \in DOMAIN queryRegistry
                /\ c.fn = queryRegistry[c.key].fn
                /\ c.ttl = queryRegistry[c.key].ttl
       /\ (event'.op = "warmReturn" /\ event'.fetch \in Values)
          => /\ event'.out = event'.fetch
             /\ event'.key \in DOMAIN cache'
             /\ cache'[event'.key].data = event'.fetch
             /\ event'.key \in DOMAIN queryRegistry'
      ]_vars

\* C17 witness: at a time past 0 and after an earlier miss, warmCache found a
\* registered key without entry, fetched B and stored it
C17_Witness ==
    /\ event.op = "warmReturn"
    /\ event.cached = {}
    /\ event.now > 0
    /\ misses >= 2
    /\ event.fetch = "B"
    /\ cache[event.key].data = "B"

\* C18: a run of pruneCache on a store of more than maxItems entries removes
\* every expired non-priority entry and leaves the store at or under 70% of
\* maxItems, unless no non-priority entry remains
C18_TwoPhasePrune ==
    [][(event'.op = "pruneCache" /\ Cardinality(DOMAIN cache) > maxItems)
       => /\ ExpiredKeys(cache, NowSeconds(clock), priorityKeys) \cap DOMAIN cache' = {}
          /\ \/ Cardinality(DOMAIN cache') * 10 <= maxItems * 7
             \/ DOMAIN cache' \subseteq priorityKeys
      ]_vars

\* C19: when pruneCache runs on a store of more than maxItems entries that are all
\* priority, it removes nothing and gives its warning; it throws nothing and
\* changes neither maxItems, the priority keys, the registry nor anything else;
\* and the warning is given in no other case
C19_EvictionStarvation ==
    EveryStoreStep(
       /\ ( /\ event'.op = "pruneCache"
            /\ Cardinality(DOMAIN cache) > maxItems
            /\ DOMAIN cache \subseteq priorityKeys )
          => /\ event'.warned
             /\ event'.removed = {}
             /\ event'.out = "none"
             /\ cache' = cache
             /\ Cardinality(DOMAIN cache') > maxItems'
             /\ UNCHANGED <<maxItems, queryRegistry, priorityKeys, prefetchQueue,
                            calls, tasks>>
       /\ event'.warned
          => /\ event'.op = "pruneCache"
             /\ Cardinality(DOMAIN cache) > maxItems
             /\ DOMAIN cache \subseteq priorityKeys
      )

\* C19 witness: pruneCache has warned and left three priority entries in a store
\* of maxItems = 2
C19_Witness ==
    /\ event.op = "pruneCache"
    /\ event.warned
    /\ maxItems = 2
    /\ Cardinality(DOMAIN cache) = 3
    /\ DOMAIN cache \subseteq priorityKeys

\* invocations of a query function for key k that have not settled: get() calls
\* suspended at their await and prefetch callbacks suspended at theirs
FetchesInFlight(k) ==
    BagCardinality([c \in {x \in BagToSet(calls) : x.key = k} |-> calls[c]])
    + BagCardinality([t \in {x \in BagToSet(tasks) : x.key = k /\ x.phase = "fetch"}
                        |-> tasks[t]])

\* C20: for every key at most one invocation of a query function is in flight at
\* any time, miss fetches and prefetches counted together
C20_NoDuplicateFetch == \A k \in Keys : FetchesInFlight(k) <= 1

\* C21: a get on a key whose entry is live can always be served, whatever get()
\* calls and prefetches are suspended at fetches that have not settled (nothing
\* makes them settle); it hands back the entry's data in its own step, suspends no
\* caller and leaves the fetches in flight as they are
C21_HungFetchBlocksOnlyCaller ==
    /\ (\A k \in Keys :
            ( /\ k \in DOMAIN cache
              /\ cache[k].expiresAt > NowSeconds(clock)
              /\ pruneQueued = 0
              /\ hits + misses < MaxRequests )
            => ENABLED (\E f \in Fns, t \in TTLs : GetHit(k, f, t)))
    /\ EveryStep(
          \A k \in Keys :
            ( /\ event'.op \in {"get", "getMiss"}
              /\ event'.key = k
              /\ k \in DOMAIN cache
              /\ cache[k].expiresAt > NowSeconds(clock) )
            => /\ event'.op = "get"
               /\ event'.out = cache[k].data
               /\ calls' = calls
               /\ \A t \in BagToSet(tasks) : t.phase = "fetch" => BagIn(t, tasks')
         )

\* C21 witness: a hit served while a fetch for the same key has not settled
C21_Witness ==
    /\ event.op = "get"
    /\ event.out \in Values
    /\ \E c \in BagToSet(calls) : c.key = event.key

\* the keys preloadCaches() warms before it asks for topStories
CriticalSet == {CriticalKeys[i] : i \in DOMAIN CriticalKeys}

\* the snapshot keys of the stories in the database
SnapshotSet == {SnapshotKey(id) : id \in StoryIds}

TimersSet == {t \in BagToSet(refreshTimers') : CopiesIn(t, refreshTimers') > CopiesIn(t, refreshTimers)}

TopKeys(run) == {SnapshotKey(run.top[i]) : i \in DOMAIN run.top}

Responded == event'.op \in {"get", "getReturn"} /\ response' # {}

C26_ConditionalResponse ==
    \A r \in response :
        r.data # "throw" =>
            IF r.req.ifNoneMatch = {ETag(r.key, HandlerTTL, r.data, clock, bunHash)}
            THEN /\ r.status = 304
                 /\ r.body = ""
                 /\ r.encoding = "none"
                 /\ r.etag = r.req.ifNoneMatch
            ELSE /\ r.status = 200
                 /\ r.body = Serialize(r.data)

\* a request that sent the ETag of the resolved value was answered 304
C26_Witness ==
    \E r \in response :
        /\ r.status = 304
        /\ r.data \in Values
        /\ r.req.ifNoneMatch = {ETag(r.key, HandlerTTL, r.data, clock, bunHash)}

\* C27: when the get() a handler awaits rejects, the handler returns a Response
\* in that same step: status 500, the fixed body of ERROR_RESPONSE, no ETag; the
\* step leaves the store, the registry and the prefetch queue as they were, and
\* the endpoint takes its next request like any other
C27_FixedErrorEnvelope ==
    /\ [][(event'.op = "getReturn" /\ event'.out = "throw") =>
            /\ \E r \in response' :
                 /\ response' = {r}
                 /\ r.status = 500
                 /\ r.body = ErrorBody
                 /\ r.etag = {}
                 /\ r.encoding = "none"
                 /\ r.key = event'.key
            /\ UNCHANGED <<cache, queryRegistry, priorityKeys, prefetchQueue, pruneQueued>>
         ]_vars
    /\ [](\A r \in response : r.status = 500 <=> r.data = "throw")
    /\ [](\A k \in HandlerKeys :
            ( /\ \E r \in response : r.status = 500 /\ r.key = k
              /\ hits + misses < MaxRequests
              /\ BagCardinality(calls) < MaxCalls
              /\ BagCardinality(tasks) < MaxTasks
              /\ clock < MaxClock
              /\ pruneQueued = 0 )
            => ENABLED (\E req \in Requests(k) : HandlerHit(k, req) \/ HandlerMiss(k, req)))

\* the fetch of a miss with no entry to fall back on failed and the handler
\* answered 500
C27_Witness ==
    /\ event.op = "getReturn"
    /\ event.out = "throw"
    /\ event.cached = {}
    /\ \E r \in response : r.status = 500 /\ r.key = event.key

\* C28: a get() that finds no live entry invokes its fetch although a fetch for
\* the same key is already pending, so two calls that both read the store before
\* either fetch completed both fetch; and every fetch that completes commits its
\* value over whatever is stored, so after both the entry is the one of the
\* fetch that completed later
C28_LastCommitWins ==
    /\ (\A k \in Keys :
            ( /\ \E c \in BagToSet(calls) : c.key = k
              /\ ~IsLive(MapGet(cache, k), NowSeconds(clock))
              /\ pruneQueued = 0
              /\ hits + misses < MaxRequests
              /\ BagCardinality(calls) < MaxCalls )
            => ENABLED (\E f \in Fns, t \in TTLs : GetMiss(k, f, t)))
    /\ EveryStep(
          event'.op = "getMiss" =>
            \E c \in BagToSet(calls') :
                /\ c.key = event'.key
                /\ c.cached = MapGet(cache, c.key)
                /\ calls' = calls (+) SetToBag({c})
         )
    /\ EveryStep(
          (event'.op = "getReturn" /\ event'.fetch \in Values) =>
            /\ event'.key \in DOMAIN cache'
            /\ cache'[event'.key] =
                 CacheItem(event'.fetch, event'.now, event'.now + event'.ttl)
         )

\* two calls read the store at the same time and both fetched; one fetch has
\* completed and committed its entry, the other is still pending
C28_Witness ==
    \E c \in BagToSet(calls) :
        /\ ~IsLive(c.cached, c.now)
        /\ c.key \in DOMAIN cache
        /\ cache[c.key].timestamp = c.now
        /\ MapGet(cache, c.key) # c.cached

\* C29: a fill that commits over a stored entry, from get()'s miss path or from a
\* prefetch, never stores an earlier timestamp or an earlier expiresAt than the
\* entry it replaces
C29_StampsNeverDecrease ==
    [][\A k \in Keys :
          ( /\ event'.key = k
            /\ \/ event'.op = "getReturn" /\ event'.fetch \in Values
               \/ event'.op = "prefetchFill"
            /\ k \in DOMAIN cache
            /\ k \in DOMAIN cache' )
          => /\ cache'[k].timestamp >= cache[k].timestamp
             /\ cache'[k].expiresAt >= cache[k].expiresAt
      ]_vars

\* C30: in the state a miss fill leaves, the entry it committed is live, so a get
\* for the key at that moment is a hit, however long the fetch took
C30_FilledEntryLive ==
    (event.op = "getReturn" /\ event.fetch \in Values) =>
        /\ event.key \in DOMAIN cache
        /\ cache[event.key].expiresAt > NowSeconds(clock)
        /\ IsLive(MapGet(cache, event.key), NowSeconds(clock))

\* C31: in the state invalidate(key) or invalidateAll() leaves after removing the
\* entry of a key, the fetches pending for that key were all started before the
\* invalidation; the next step does not commit the result of one of them to the
\* store
C31_NoRefillAfterInvalidate ==
    [][\A k \in Keys :
          ( /\ event.op \in {"invalidate", "invalidateAll"}
            /\ k \in event.removed )
          => ~( /\ event'.op \in {"getReturn", "prefetchFill"}
                /\ event'.key = k
                /\ event'.fetch \in Values
                /\ k \in DOMAIN cache' )
      ]_vars

\* the steps of a get() call: hit, miss up to the await, and the continuation
GetOps == {"get", "getMiss", "getReturn"}

\* C35: a step of get() leaves every registration that exists as it is; the
\* registry grows only in the continuation of a successful fetch, by the
\* registration (key, fn, ttl, priority = false) of the call's key, and it does
\* grow there when the key had none
C35_GetKeepsRegistrations ==
    EveryStep(
       event'.op \in GetOps =>
         /\ \A k \in DOMAIN queryRegistry :
              k \in DOMAIN queryRegistry' /\ queryRegistry'[k] = queryRegistry[k]
         /\ \A k \in DOMAIN queryRegistry' \ DOMAIN queryRegistry :
              /\ event'.op = "getReturn"
              /\ event'.fetch \in Values
              /\ k = event'.key
              /\ \E call \in BagToSet(calls) :
                   /\ calls' = calls (-) SetToBag({call})
                   /\ queryRegistry'[k] =
                        [fn |-> call.fn, ttl |-> call.ttl, priority |-> FALSE]
              /\ k \notin priorityKeys'
         /\ (event'.op = "getReturn" /\ event'.fetch \in Values)
              => event'.key \in DOMAIN queryRegistry'
         /\ (event'.op # "getReturn" \/ event'.fetch \notin Values)
              => queryRegistry' = queryRegistry
      )

\* a fetch of get() has filled a key whose registration is priority, and another
\* key holds a registration that only a fill can have made: the registry has
\* registrations that no register() call with priority made
C35_Witness ==
    /\ event.op = "getReturn"
    /\ event.fetch \in Values
    /\ event.key \in DOMAIN queryRegistry
    /\ queryRegistry[event.key].priority
    /\ event.key \in priorityKeys
    /\ \E k \in DOMAIN queryRegistry : ~queryRegistry[k].priority

\* the registered keys whose registration says priority = true
PriorityRegistered == {k \in DOMAIN queryRegistry : queryRegistry[k].priority}

\* the steps that remove entries in bulk: pruneCache, invalidateAll, and the
\* garbage collection, which runs off a timer and leaves no event
BulkRemoval(op) == op \in {"pruneCache", "invalidateAll", "none"}

\* C36: the priority-key set is at all times the set of the registered keys whose
\* registration is priority; pruneCache, the garbage collection and invalidateAll
\* remove no entry of such a key, and invalidateAll removes every other entry
C36_PriorityKeysMatchRegistry ==
    /\ (priorityKeys = PriorityRegistered)
    /\ EveryStep(
          BulkRemoval(event'.op) =>
            /\ \A k \in DOMAIN cache \cap PriorityRegistered : k \in DOMAIN cache'
            /\ event'.op = "invalidateAll"
                 => DOMAIN cache' = DOMAIN cache \cap PriorityRegistered
         )

\* register(key, ..., priority = false) has just been called for a key that holds
\* an entry while another key, registered with priority, holds one too
C36_Witness ==
    /\ event.op = "register"
    /\ event.key \in DOMAIN cache
    /\ event.key \in DOMAIN queryRegistry
    /\ ~queryRegistry[event.key].priority
    /\ event.key \notin priorityKeys
    /\ \E k \in DOMAIN cache : k \in priorityKeys

\* the TTL a prefetch fill applied: the life it gave the entry it stored
AppliedTtl == cache[event.key].expiresAt - event.now

\* floor(ttl * min(3, 1 + latency / 1000)), latency in milliseconds
SlowQueryTtl(ttl, latency) ==
    LET perMille == IF 1000 + latency < 3000 THEN 1000 + latency ELSE 3000
    IN  (ttl * perMille) \div 1000

\* C37: the entry a successful prefetch stores lives for the nominal ttl when the
\* query took at most 200 ms and for floor(ttl * min(3, 1 + latency/1000))
\* otherwise, which is never less than the nominal ttl nor more than three times it
C37_AdaptiveTtl ==
    event.op = "prefetchFill" =>
        /\ event.key \in DOMAIN cache
        /\ cache[event.key].timestamp = event.now
        /\ event.queryTime <= 200 => AppliedTtl = event.ttl
        /\ event.queryTime > 200 => AppliedTtl = SlowQueryTtl(event.ttl, event.queryTime)
        /\ event.ttl <= AppliedTtl
        /\ AppliedTtl <= 3 * event.ttl

\* a prefetch whose query took between 200 ms and 2 s has stored an entry that
\* lives longer than the nominal ttl and less than three times it
C37_Witness ==
    /\ event.op = "prefetchFill"
    /\ event.queryTime > 200
    /\ event.queryTime < 2000
    /\ event.key \in DOMAIN cache
    /\ AppliedTtl > event.ttl
    /\ AppliedTtl < 3 * event.ttl

\* a hit on key k with ttl argument t, made now, schedules a prefetch
HitSchedules(k, t) ==
    ENABLED (/\ \E f \in Fns : GetHit(k, f, t)
             /\ event'.scheduled)

\* C38: a hit schedules a prefetch exactly when the entry's time to expiry is
\* under the threshold share of the ttl argument and the key is not in the
\* prefetch queue; and when two keys hold entries with the same time to expiry,
\* neither queued, a hit that schedules a prefetch for the one that is not
\* priority schedules one as well when made with the same ttl on the priority key
C38_PrefetchThreshold ==
    /\ [][event'.op = "get" =>
            \E c \in event'.cached :
               event'.scheduled <=>
                  /\ (c.expiresAt - event'.now) * 100
                       < event'.ttl * ThresholdPct(event'.key \in priorityKeys, isProduction)
                  /\ event'.key \notin prefetchQueue
         ]_vars
    /\ [](\A k1 \in DOMAIN cache \ priorityKeys, k2 \in DOMAIN cache \cap priorityKeys :
            ( /\ cache[k1].expiresAt = cache[k2].expiresAt
              /\ k1 \notin prefetchQueue
              /\ k2 \notin prefetchQueue )
            => \A t \in ThresholdTTLs : HitSchedules(k1, t) => HitSchedules(k2, t))

\* a hit has scheduled a prefetch for a priority key while a regular key holds an
\* entry with the same time to expiry, is not queued, and is outside the window
\* of regular keys for that ttl
C38_Witness ==
    \E k1 \in DOMAIN cache \ priorityKeys, k2 \in DOMAIN cache \cap priorityKeys :
       /\ cache[k1].expiresAt = cache[k2].expiresAt
       /\ event.op = "get"
       /\ event.key = k2
       /\ event.scheduled
       /\ k1 \notin prefetchQueue
       /\ (cache[k1].expiresAt - event.now) * 100
             >= event.ttl * ThresholdPct(FALSE, isProduction)
       /\ (cache[k1].expiresAt - event.now) * 100
             < event.ttl * ThresholdPct(TRUE, isProduction)

\* C39: every entry a run of pruneCache removed that was not expired and not
\* priority was created no later than each non-priority entry the run left
C39_EvictsOldestFirst ==
    EveryStoreStep(
       event'.op = "pruneCache" =>
         \A a \in event'.removed :
            (cache[a].expiresAt > NowSeconds(clock) /\ a \notin priorityKeys)
            => \A b \in DOMAIN cache' \ priorityKeys :
                  cache[a].timestamp <= cache[b].timestamp
      )

\* pruneCache has removed entries before any entry could expire and left a
\* non-priority entry that was created later than the first ones
C39_Witness ==
    /\ event.op = "pruneCache"
    /\ event.removed # {}
    /\ event.removed \cap priorityKeys = {}
    /\ NowSeconds(clock) < 300
    /\ \E b \in DOMAIN cache \ priorityKeys : cache[b].timestamp > 0

\* C40: a run of the garbage collection deletes the entries with expiresAt <= now
\* whose key is not priority and no other: the entries get would serve as a hit
\* and the priority entries stay, expired or not, every entry that stays is
\* unchanged, and so are the registry and the prefetch queue
C40_GarbageCollection ==
    EveryStep(
       RunGarbageCollection =>
         LET now == NowSeconds(clock)
         IN  /\ DOMAIN cache \ DOMAIN cache'
                  = {k \in DOMAIN cache : cache[k].expiresAt <= now /\ k \notin priorityKeys}
             /\ \A k \in DOMAIN cache :
                  /\ IsLive(MapGet(cache, k), now) => k \in DOMAIN cache'
                  /\ k \in priorityKeys => k \in DOMAIN cache'
             /\ DOMAIN cache' \subseteq DOMAIN cache
             /\ \A k \in DOMAIN cache' : cache'[k] = cache[k]
             /\ queryRegistry' = queryRegistry
             /\ prefetchQueue' = prefetchQueue
      )

\* the garbage collection is due with an expired entry to delete, an expired
\* priority entry to spare and a key in the prefetch queue
C40_Witness ==
    /\ ENABLED (RunGarbageCollection /\ cache' # cache)
    /\ \E k \in DOMAIN cache \cap priorityKeys : cache[k].expiresAt <= NowSeconds(clock)
    /\ prefetchQueue # {}

\* C34: when the fetch of the get a run of preloadCaches awaits fails, the run
\* goes on to the key that comes next (or ends, after the last one): it is not
\* cut short
C34_WarmingIsolatedPerKey ==
    [][\A r \in DOMAIN preloads :
          ( /\ preloads[r].status = "get"
            /\ preloads'[r] # preloads[r]
            /\ event'.op = "getReturn"
            /\ event'.fetch = "throw" )
          => /\ preloads'[r].status \in {"ready", "done"}
             /\ preloads'[r].pc = preloads[r].pc + 1
      ]_vars

\* the runs of preloadCaches() that timers of invalidateAndRefreshCaches started
RefreshRuns == {r \in DOMAIN preloads : preloads[r].timer # {}}

\* a run is in progress until it ends or its catch block has run
InProgress(r) == preloads[r].status \notin {"done", "caught"}

\* C33: the calls of invalidateAndRefreshCaches made within one delay window
\* start one run of preloadCaches between them, and no two of the runs they
\* start are in progress at the same time
C33_Debounce ==
    /\ \A r1, r2 \in RefreshRuns :
         r1 # r2 =>
           \A t1 \in preloads[r1].timer, t2 \in preloads[r2].timer :
              t1.setAt + RefreshDelay <= t2.setAt \/ t2.setAt + RefreshDelay <= t1.setAt
    /\ Cardinality({r \in RefreshRuns : InProgress(r)}) <= 1

====
